---- MODULE Spec2Model ----
(***************************************************************************)
(* Finite-horizon value functions of robust_value_approx/                  *)
(* value_to_optimization.py: the trajectory program assembled by           *)
(* ValueFunction.traj_opt_constraint, the evaluation closures, and the two *)
(* differentiable layers, the sample-grid methods and the knot points of   *)
(* NLPValueFunction; and the bound propagation of                          *)
(* neural_network_lyapunov/mip_utils.py.                                   *)
(*                                                                         *)
(* Conventions.  Vectors are sequences, matrices are sequences of rows.    *)
(* Python's None is the empty sequence and a present value v is <<v>>; a   *)
(* NaN entry of a boundary vector is <<>> and a number v is <<v>>.  Python  *)
(* indices are 0-based: the slice v[a:b] is Slice(v, a, b).  All numbers   *)
(* are integers; the quadratic weights have an even diagonal, so every     *)
(* ".5 * (quadratic form)" of the code is an integer and Half is exact.    *)
(***************************************************************************)
EXTENDS Integers, Sequences, FiniteSets, TLC

\* ------------------------------------------------------------------ bounds
MaxN == 3
MaxVal == 2
MaxCostFields == 2
MaxProbeNonZero == 2

\* ------------------------------------------------------- optional values
None == <<>>
Some(v) == <<v>>
IsNone(o) == o = <<>>
Get(o) == o[1]

\* ------------------------------------------------------- tensor helpers
\* A float is a finite number or one of the two infinities.
Fin(v) == [inf |-> 0, val |-> v]
PosInf == [inf |-> 1, val |-> 0]
NegInf == [inf |-> 0 - 1, val |-> 0]
Min2(a, b) == IF a < b THEN a ELSE b
Max2(a, b) == IF a > b THEN a ELSE b
Half(v) == v \div 2

RECURSIVE SumSeq(_)
SumSeq(v) == IF Len(v) = 0 THEN 0 ELSE Head(v) + SumSeq(Tail(v))

Dot(a, b) == SumSeq([i \in 1..Len(a) |-> a[i] * b[i]])
Rows(M) == Len(M)
Cols(M) == Len(M[1])
MatVec(M, v) == [i \in 1..Len(M) |-> Dot(M[i], v)]
VecMat(v, M) == [j \in 1..Cols(M) |-> SumSeq([i \in 1..Len(v) |-> v[i] * M[i][j]])]
QuadForm(v, M) == Dot(v, MatVec(M, v))
VecAdd(a, b) == [i \in 1..Len(a) |-> a[i] + b[i]]
VecSub(a, b) == [i \in 1..Len(a) |-> a[i] - b[i]]
VecNeg(a) == [i \in 1..Len(a) |-> 0 - a[i]]
MatNeg(M) == [i \in 1..Len(M) |-> VecNeg(M[i])]
Zeros(n) == [i \in 1..n |-> 0]
Ones(n) == [i \in 1..n |-> 1]
ZerosM(r, c) == [i \in 1..r |-> Zeros(c)]
Eye(n) == [i \in 1..n |-> [j \in 1..n |-> IF i = j THEN 1 ELSE 0]]
\* torch.cat(..., 1): matrices side by side
HCat(A, B) == [i \in 1..Len(A) |-> A[i] \o B[i]]
\* M[:, n] for a 0-based column n
Col(M, n) == [i \in 1..Len(M) |-> M[i][n + 1]]
\* resolved position of a Python slice bound in a sequence of length len
PyIdx(len, a) == IF a < 0 THEN Max2(len + a, 0) ELSE Min2(a, len)
Slice(v, a, b) == SubSeq(v, PyIdx(Len(v), a) + 1, PyIdx(Len(v), b))
\* M[:, a:b]
ColSlice(M, a, b) == [i \in 1..Len(M) |-> Slice(M[i], a, b)]
\* v[lo:hi] += w and v[lo:hi] -= w, for resolved 0 <= lo <= hi <= Len(v)
AddSlice(v, lo, hi, w) ==
    [i \in 1..Len(v) |-> IF lo < i /\ i <= hi THEN v[i] + w[i - lo] ELSE v[i]]
\* M[lo:hi, lo:hi] += B
AddBlock(M, lo, hi, B) ==
    [i \in 1..Len(M) |-> [j \in 1..Len(M[i]) |->
        IF lo < i /\ i <= hi /\ lo < j /\ j <= hi
        THEN M[i][j] + B[i - lo][j - lo] ELSE M[i][j]]]
\* M[r0:r0+Rows(B), c0:c0+Cols(B)] = B
SetBlock(M, r0, c0, B) ==
    [i \in 1..Len(M) |-> [j \in 1..Len(M[i]) |->
        IF r0 < i /\ i <= r0 + Len(B) /\ c0 < j /\ j <= c0 + Cols(B)
        THEN B[i - r0][j - c0] ELSE M[i][j]]]
\* rows of M selected by a boolean mask (M[mask, :])
RECURSIVE MaskRows(_, _)
MaskRows(M, mask) ==
    IF Len(M) = 0 THEN <<>>
    ELSE (IF Head(mask) THEN <<Head(M)>> ELSE <<>>) \o MaskRows(Tail(M), Tail(mask))
\* v.repeat(n)
RECURSIVE Repeat(_, _)
Repeat(v, n) == IF n = 0 THEN <<>> ELSE v \o Repeat(v, n - 1)

\* ---------------------------------------------- the hybrid system (sys)
\* One-step mixed-integer encoding returned by sys.mixed_integer_constraints.
\* Two modes over a state (x1, x2), one input u and one slack w:
\*   mode 0: w = x1 + u,  mode 1: w = x2;  x1' = w, x2' = alpha[1].
\*   x[n+1] = Aeq_slack w + Aeq_alpha alpha
\*   Ain_x x + Ain_u u + Ain_slack w + Ain_alpha alpha <= rhs_in_dyn
BigM == 2 * MaxVal + 2
mixed_integer_constraints ==
    [Aeq_slack |-> << <<1>>, <<0>> >>,
     Aeq_alpha |-> << <<0, 0>>, <<0, 1>> >>,
     Ain_x     |-> << <<-1, 0>>, <<1, 0>>, <<0, -1>>, <<0, 1>> >>,
     Ain_u     |-> << <<-1>>, <<1>>, <<0>>, <<0>> >>,
     Ain_slack |-> << <<1>>, <<-1>>, <<1>>, <<-1>> >>,
     Ain_alpha |-> << <<BigM, 0>>, <<BigM, 0>>, <<0, BigM>>, <<0, BigM>> >>,
     rhs_in_dyn |-> <<BigM, BigM, BigM, BigM>>]
sys_x_dim == 2
sys_u_dim == 1
\* bounds given to the constructor
x_lo == <<-1, 0>>
x_up == <<1, 1>>
u_lo == <<-1>>
u_up == <<0>>

\* --------------------------------- ValueFunction.traj_opt_constraint
xdim == Cols(mixed_integer_constraints.Ain_x)
udim == Cols(mixed_integer_constraints.Ain_u)
slackdim == Cols(mixed_integer_constraints.Ain_slack)
adim == Cols(mixed_integer_constraints.Ain_alpha)
blk == xdim + udim + slackdim
sdim(N) == (xdim + udim + slackdim) * N - xdim
alphadim(N) == adim * N
num_in_dyn == Len(mixed_integer_constraints.rhs_in_dyn)
num_eq_dyn == xdim

\* for i in range(n): M[i*rstep:(i+1)*rstep, i*cstep:i*cstep+Cols(B)] = B
RECURSIVE BlockLoop(_, _, _, _, _, _)
BlockLoop(M, B, rstep, cstep, i, n) ==
    IF i >= n THEN M
    ELSE BlockLoop(SetBlock(M, i * rstep, i * cstep, B), B, rstep, cstep, i + 1, n)

\* dynamics inequality constraints
s_in_dyn ==
    HCat(HCat(mixed_integer_constraints.Ain_x, mixed_integer_constraints.Ain_u),
         mixed_integer_constraints.Ain_slack)
Ain_dyn(N) == BlockLoop(ZerosM(N * num_in_dyn, N * blk), s_in_dyn, num_in_dyn, blk, 0, N)
Ain3_dyn(N) ==
    BlockLoop(ZerosM(N * num_in_dyn, alphadim(N)), mixed_integer_constraints.Ain_alpha,
              num_in_dyn, adim, 0, N)
RECURSIVE rhs_in_loop(_, _, _)
rhs_in_loop(rhs, i, N) ==
    IF i >= N THEN rhs
    ELSE rhs_in_loop([k \in 1..Len(rhs) |->
                         IF i * num_in_dyn < k /\ k <= (i + 1) * num_in_dyn
                         THEN mixed_integer_constraints.rhs_in_dyn[k - i * num_in_dyn]
                         ELSE rhs[k]], i + 1, N)
rhs_in_dyn_all(N) == rhs_in_loop(Zeros(N * num_in_dyn), 0, N)

\* dynamics equality constraints
s_eq_dyn ==
    HCat(HCat(ZerosM(num_eq_dyn, xdim + udim), mixed_integer_constraints.Aeq_slack),
         MatNeg(Eye(xdim)))
Aeq_dyn(N) == BlockLoop(ZerosM((N - 1) * num_eq_dyn, N * blk), s_eq_dyn, num_eq_dyn, blk, 0, N - 1)
Aeq3_dyn(N) ==
    BlockLoop(ZerosM((N - 1) * num_eq_dyn, alphadim(N)), mixed_integer_constraints.Aeq_alpha,
              num_eq_dyn, adim, 0, N - 1)

\* one mode at a time: Aeq_mode[i, i*adim:(i+1)*adim] = ones(1, adim)
\* variant: the slice of step i starts at column i instead of i*adim
Aeq_mode_unit_stride(N) == BlockLoop(ZerosM(N, alphadim(N)), <<Ones(adim)>>, 1, 1, 0, N)
Aeq_mode(N) == BlockLoop(ZerosM(N, alphadim(N)), <<Ones(adim)>>, 1, adim, 0, N)

\* state and input constraints: rows of +-eye kept for the x and u coordinates
box_mask(N) == Repeat([k \in 1..blk |-> k <= xdim + udim], N)
Aup(N) == MaskRows(Eye(N * blk), box_mask(N))
\* variant: the lower-bound rows are not negated
Alo_not_negated(N) == MaskRows(Eye(N * blk), box_mask(N))
Alo(N) == MaskRows(MatNeg(Eye(N * blk)), box_mask(N))
rhs_up(N) == Repeat(x_up \o u_up, N)
rhs_lo(N) == VecNeg(Repeat(x_lo \o u_lo, N))

\* the inequality block (Ain1, Ain2, Ain3, rhs_in)
\* variant: Ain3 is extended for the upper bounds only
traj_opt_ineq_short_Ain3(self) ==
    LET N == self.N IN
    [Ain1 |-> ColSlice(Ain_dyn(N), 0, xdim) \o ColSlice(Aup(N), 0, xdim)
                \o ColSlice(Alo(N), 0, xdim),
     Ain2 |-> ColSlice(Ain_dyn(N), xdim, N * blk) \o ColSlice(Aup(N), xdim, N * blk)
                \o ColSlice(Alo(N), xdim, N * blk),
     Ain3 |-> Ain3_dyn(N) \o ZerosM(N * (xdim + udim), alphadim(N)),
     rhs_in |-> rhs_in_dyn_all(N) \o rhs_up(N) \o rhs_lo(N)]
traj_opt_ineq(self) ==
    LET N == self.N IN
    [Ain1 |-> ColSlice(Ain_dyn(N), 0, xdim) \o ColSlice(Aup(N), 0, xdim)
                \o ColSlice(Alo(N), 0, xdim),
     Ain2 |-> ColSlice(Ain_dyn(N), xdim, N * blk) \o ColSlice(Aup(N), xdim, N * blk)
                \o ColSlice(Alo(N), xdim, N * blk),
     Ain3 |-> (Ain3_dyn(N) \o ZerosM(N * (xdim + udim), alphadim(N)))
                \o ZerosM(N * (xdim + udim), alphadim(N)),
     rhs_in |-> rhs_in_dyn_all(N) \o rhs_up(N) \o rhs_lo(N)]

\* ~torch.isnan(v) and v[~torch.isnan(v)] for a boundary vector of optional entries
notnan(v) == [i \in 1..Len(v) |-> v[i] # <<>>]
RECURSIVE nonnan_values(_)
nonnan_values(v) ==
    IF Len(v) = 0 THEN <<>>
    ELSE (IF Head(v) # <<>> THEN <<Head(v)[1]>> ELSE <<>>) \o nonnan_values(Tail(v))

\* dynamics rows followed by the mode rows
eq_dyn_mode(N) ==
    [Aeq1 |-> ColSlice(Aeq_dyn(N), 0, xdim) \o ZerosM(N, xdim),
     Aeq2 |-> ColSlice(Aeq_dyn(N), xdim, N * blk) \o ZerosM(N, sdim(N)),
     Aeq3 |-> Aeq3_dyn(N) \o Aeq_mode(N),
     rhs_eq |-> Zeros((N - 1) * num_eq_dyn) \o Ones(N)]

\* initial state constraints x[0] == x0
eq_x0(self, eq) ==
    IF IsNone(self.x0) THEN eq
    ELSE LET N == self.N
             m == notnan(Get(self.x0)) IN
         [Aeq1 |-> eq.Aeq1 \o MaskRows(Eye(xdim), m),
          Aeq2 |-> eq.Aeq2 \o MaskRows(ZerosM(xdim, sdim(N)), m),
          Aeq3 |-> eq.Aeq3 \o MaskRows(ZerosM(xdim, alphadim(N)), m),
          rhs_eq |-> eq.rhs_eq \o nonnan_values(Get(self.x0))]

\* final state constraint x[N] == xN
\* variant: the identity is placed on the first state slice of s
AxN2_first_state(N) == SetBlock(ZerosM(xdim, sdim(N)), 0, udim + slackdim, Eye(xdim))
AxN2(N) ==
    LET lo == PyIdx(sdim(N), 0 - (xdim + udim + slackdim)) IN
    SetBlock(ZerosM(xdim, sdim(N)), 0, lo,
             ColSlice(Eye(xdim), 0, PyIdx(sdim(N), 0 - (udim + slackdim)) - lo))
eq_xN(self, eq) ==
    IF IsNone(self.xN) THEN eq
    ELSE LET N == self.N
             m == notnan(Get(self.xN)) IN
         [Aeq1 |-> eq.Aeq1 \o MaskRows(ZerosM(xdim, xdim), m),
          Aeq2 |-> eq.Aeq2 \o MaskRows(AxN2(N), m),
          Aeq3 |-> eq.Aeq3 \o MaskRows(ZerosM(xdim, alphadim(N)), m),
          rhs_eq |-> eq.rhs_eq \o nonnan_values(Get(self.xN))]

\* constant control input: one row u[index, i] - u[index, i+1] == 0
\* variant: the -1 is placed as if a step had no slack coordinates
const_input_no_slack(N, i, constant_control_index) ==
    [k \in 1..sdim(N) |->
        IF k = (i + 1) * (xdim + udim) + constant_control_index + 1 THEN -1
        ELSE IF k = i * (xdim + udim + slackdim) + constant_control_index + 1 THEN 1
        ELSE 0]
const_input(N, i, constant_control_index) ==
    [k \in 1..sdim(N) |->
        IF k = (i + 1) * (xdim + udim + slackdim) + constant_control_index + 1 THEN -1
        ELSE IF k = i * (xdim + udim + slackdim) + constant_control_index + 1 THEN 1
        ELSE 0]
RECURSIVE eq_const_steps(_, _, _, _)
eq_const_steps(N, eq, constant_control_index, i) ==
    IF i >= N - 1 THEN eq
    ELSE eq_const_steps(N,
            [Aeq1 |-> eq.Aeq1 \o ZerosM(1, xdim),
             Aeq2 |-> eq.Aeq2 \o <<const_input(N, i, constant_control_index)>>,
             Aeq3 |-> eq.Aeq3 \o ZerosM(1, alphadim(N)),
             rhs_eq |-> eq.rhs_eq \o Zeros(1)],
            constant_control_index, i + 1)
RECURSIVE eq_const(_, _, _)
eq_const(N, eq, constant_controls) ==
    IF Len(constant_controls) = 0 THEN eq
    ELSE eq_const(N, eq_const_steps(N, eq, Head(constant_controls), 0),
                  Tail(constant_controls))

\* the equality block (Aeq1, Aeq2, Aeq3, rhs_eq)
traj_opt_eq(self) ==
    eq_const(self.N, eq_xN(self, eq_x0(self, eq_dyn_mode(self.N))), self.constant_controls)

\* costs.  A cost triple t = [M, v, c] is a quadratic matrix, its linear
\* vector and the constant; W and w are optional weights, tcol the optional
\* reference column.
\*   M[lo:hi, lo:hi] += W;  if traj: v[lo:hi] -= tcol.T@W;  c += .5*tcol.T@W@tcol
\* variant: the constant of a reference is added without the factor .5
quad_term_whole_constant(t, W, lo, hi, tcol) ==
    IF IsNone(W) THEN t
    ELSE [M |-> AddBlock(t.M, lo, hi, Get(W)),
          v |-> IF IsNone(tcol) THEN t.v
                ELSE AddSlice(t.v, lo, hi, VecNeg(VecMat(Get(tcol), Get(W)))),
          c |-> IF IsNone(tcol) THEN t.c
                ELSE t.c + Dot(VecMat(Get(tcol), Get(W)), Get(tcol))]
quad_term(t, W, lo, hi, tcol) ==
    IF IsNone(W) THEN t
    ELSE [M |-> AddBlock(t.M, lo, hi, Get(W)),
          v |-> IF IsNone(tcol) THEN t.v
                ELSE AddSlice(t.v, lo, hi, VecNeg(VecMat(Get(tcol), Get(W)))),
          c |-> IF IsNone(tcol) THEN t.c
                ELSE t.c + Half(Dot(VecMat(Get(tcol), Get(W)), Get(tcol)))]
\*   v[lo:hi] += w;  if traj: c -= w.T@tcol
lin_term(t, w, lo, hi, tcol) ==
    IF IsNone(w) THEN t
    ELSE [M |-> t.M,
          v |-> AddSlice(t.v, lo, hi, Get(w)),
          c |-> IF IsNone(tcol) THEN t.c ELSE t.c - Dot(Get(w), Get(tcol))]
\* the triple (Q1,q1,c), (Q2,q2,c) or (Q3,q3,c) of the cost record cs
Pick(cs, k) ==
    IF k = 1 THEN [M |-> cs.Q1, v |-> cs.q1, c |-> cs.c]
    ELSE IF k = 2 THEN [M |-> cs.Q2, v |-> cs.q2, c |-> cs.c]
    ELSE [M |-> cs.Q3, v |-> cs.q3, c |-> cs.c]
Put(cs, k, t) ==
    IF k = 1 THEN [cs EXCEPT !.Q1 = t.M, !.q1 = t.v, !.c = t.c]
    ELSE IF k = 2 THEN [cs EXCEPT !.Q2 = t.M, !.q2 = t.v, !.c = t.c]
    ELSE [cs EXCEPT !.Q3 = t.M, !.q3 = t.v, !.c = t.c]
quad_on(cs, k, W, lo, hi, tcol) == Put(cs, k, quad_term(Pick(cs, k), W, lo, hi, tcol))
lin_on(cs, k, w, lo, hi, tcol) == Put(cs, k, lin_term(Pick(cs, k), w, lo, hi, tcol))
\* traj[:, n] of an optional reference trajectory
TrajCol(traj, n) == IF IsNone(traj) THEN None ELSE Some(Col(Get(traj), n))

cost_zero(N) ==
    [Q1 |-> ZerosM(xdim, xdim), q1 |-> Zeros(xdim),
     Q2 |-> ZerosM(sdim(N), sdim(N)), q2 |-> Zeros(sdim(N)),
     Q3 |-> ZerosM(alphadim(N), alphadim(N)), q3 |-> Zeros(alphadim(N)),
     c |-> 0]

\* step 0: Q, q on x and R, r on s[:udim]
cost_step0(self, cs) ==
    LET a == quad_on(cs, 1, self.Q, 0, xdim, TrajCol(self.xtraj, 0))
        b == lin_on(a, 1, self.q, 0, xdim, TrajCol(self.xtraj, 0))
        d == quad_on(b, 2, self.R, 0, udim, TrajCol(self.utraj, 0))
    IN lin_on(d, 2, self.r, 0, udim, TrajCol(self.utraj, 0))

\* for i in range(N - 2): stage weights on step i + 1
Qi(i) == udim + slackdim + i * (xdim + udim + slackdim)
Qip(i) == udim + slackdim + i * (xdim + udim + slackdim) + xdim
Ri(i) == udim + slackdim + i * (xdim + udim + slackdim) + xdim
Rip(i) == udim + slackdim + i * (xdim + udim + slackdim) + xdim + udim
RECURSIVE cost_mid(_, _, _)
cost_mid(self, cs, i) ==
    IF i >= self.N - 2 THEN cs
    ELSE LET a == quad_on(cs, 2, self.Q, Qi(i), Qip(i), TrajCol(self.xtraj, i + 1))
             b == quad_on(a, 2, self.R, Ri(i), Rip(i), TrajCol(self.utraj, i + 1))
             d == lin_on(b, 2, self.q, Qi(i), Qip(i), TrajCol(self.xtraj, i + 1))
             e == lin_on(d, 2, self.r, Ri(i), Rip(i), TrajCol(self.utraj, i + 1))
         IN cost_mid(self, e, i + 1)

\* for i in range(N - 1): Z, z on alpha[i*adim:(i+1)*adim]
RECURSIVE cost_alpha(_, _, _)
cost_alpha(self, cs, i) ==
    IF i >= self.N - 1 THEN cs
    ELSE LET a == quad_on(cs, 3, self.Z, i * adim, (i + 1) * adim, TrajCol(self.alphatraj, i))
             b == lin_on(a, 3, self.z, i * adim, (i + 1) * adim, TrajCol(self.alphatraj, i))
         IN cost_alpha(self, b, i + 1)

\* terminal weights on the last x, u and alpha slices (negative slice bounds)
cost_terminal(self, cs) ==
    LET N == self.N
        xlo == PyIdx(sdim(N), 0 - (xdim + udim + slackdim))
        xhi == PyIdx(sdim(N), 0 - (udim + slackdim))
        ulo == PyIdx(sdim(N), 0 - (udim + slackdim))
        uhi == PyIdx(sdim(N), 0 - slackdim)
        alo == PyIdx(alphadim(N), 0 - adim)
        a == quad_on(cs, 2, self.Qt, xlo, xhi, TrajCol(self.xtraj, N - 1))
        b == quad_on(a, 2, self.Rt, ulo, uhi, TrajCol(self.utraj, N - 1))
        d == lin_on(b, 2, self.qt, xlo, xhi, TrajCol(self.xtraj, N - 1))
        e == lin_on(d, 2, self.rt, ulo, uhi, TrajCol(self.utraj, N - 1))
        f == quad_on(e, 3, self.Zt, alo, alphadim(N), TrajCol(self.alphatraj, N - 1))
    IN lin_on(f, 3, self.zt, alo, alphadim(N), TrajCol(self.alphatraj, N - 1))

traj_opt_cost(self) ==
    cost_terminal(self, cost_alpha(self, cost_mid(self, cost_step0(self, cost_zero(self.N)), 0), 0))

\* the tuple returned by traj_opt_constraint
traj_opt_constraint(self) ==
    LET in == traj_opt_ineq(self)
        eq == traj_opt_eq(self)
        co == traj_opt_cost(self) IN
    [Ain1 |-> in.Ain1, Ain2 |-> in.Ain2, Ain3 |-> in.Ain3, rhs_in |-> in.rhs_in,
     Aeq1 |-> eq.Aeq1, Aeq2 |-> eq.Aeq2, Aeq3 |-> eq.Aeq3, rhs_eq |-> eq.rhs_eq,
     Q1 |-> co.Q1, Q2 |-> co.Q2, Q3 |-> co.Q3,
     q1 |-> co.q1, q2 |-> co.q2, q3 |-> co.q3, c |-> co.c]

\* the objective expression built from the tuple (cp.Minimize(...))
Objective(prog, x, s, alpha) ==
    Half(QuadForm(x, prog.Q1)) + Half(QuadForm(s, prog.Q2)) + Half(QuadForm(alpha, prog.Q3))
    + Dot(prog.q1, x) + Dot(prog.q2, s) + Dot(prog.q3, alpha) + prog.c

\* ------------------------------------------- ValueFunction.sol_to_traj
\* v.reshape(N, -1).t(): column n is the n-th chunk of v
Reshape(v, N) == [n \in 1..N |-> SubSeq(v, (n - 1) * (Len(v) \div N) + 1, n * (Len(v) \div N))]
Transpose(M) == [i \in 1..Cols(M) |-> [n \in 1..Len(M) |-> M[n][i]]]
\* variant: u_traj keeps every row below the states, the slack rows included
sol_to_traj_with_slack(self, x0, s_val, alpha_val) ==
    IF IsNone(s_val) THEN [x_traj |-> None, u_traj |-> None, alpha_traj |-> None]
    ELSE LET traj_val == Transpose(Reshape(x0 \o Get(s_val), self.N)) IN
         [x_traj |-> SubSeq(traj_val, 1, sys_x_dim),
          u_traj |-> SubSeq(traj_val, sys_x_dim + 1, Len(traj_val)),
          alpha_traj |-> Transpose(Reshape(Get(alpha_val), self.N))]
sol_to_traj(self, x0, s_val, alpha_val) ==
    IF IsNone(s_val) THEN [x_traj |-> None, u_traj |-> None, alpha_traj |-> None]
    ELSE LET traj_val == Transpose(Reshape(x0 \o Get(s_val), self.N)) IN
         [x_traj |-> SubSeq(traj_val, 1, sys_x_dim),
          u_traj |-> SubSeq(traj_val, sys_x_dim + 1, sys_x_dim + sys_u_dim),
          alpha_traj |-> Transpose(Reshape(Get(alpha_val), self.N))]

\* ------------------------------- ValueFunction.step_cost and traj_cost
dev(val, traj, n) == IF IsNone(traj) THEN val ELSE VecSub(val, Col(Get(traj), n))
step_cost(self, n, x_val, u_val, alpha_val) ==
    LET term == n >= self.N - 1
        Q == IF term THEN self.Qt ELSE self.Q
        R == IF term THEN self.Rt ELSE self.R
        Z == IF term THEN self.Zt ELSE self.Z
        q == IF term THEN self.qt ELSE self.q
        r == IF term THEN self.rt ELSE self.r
        z == IF term THEN self.zt ELSE self.z
        dx == dev(x_val, self.xtraj, n)
        du == dev(u_val, self.utraj, n)
    IN  (IF IsNone(Q) THEN 0 ELSE Half(QuadForm(dx, Get(Q))))
      + (IF IsNone(q) THEN 0 ELSE Dot(dx, Get(q)))
      + (IF IsNone(R) THEN 0 ELSE Half(QuadForm(du, Get(R))))
      + (IF IsNone(r) THEN 0 ELSE Dot(du, Get(r)))
      + (IF IsNone(alpha_val) THEN 0
         ELSE LET da == dev(Get(alpha_val), self.alphatraj, n) IN
              (IF IsNone(Z) THEN 0 ELSE Half(QuadForm(da, Get(Z))))
            + (IF IsNone(z) THEN 0 ELSE Dot(da, Get(z))))
RECURSIVE traj_cost_from(_, _, _)
traj_cost_from(self, traj, n) ==
    IF n >= self.N THEN 0
    ELSE step_cost(self, n, Col(traj.x_traj, n), Col(traj.u_traj, n),
                   Some(Col(traj.alpha_traj, n)))
         + traj_cost_from(self, traj, n + 1)
traj_cost(self, traj) == traj_cost_from(self, traj, 0)

\* ------------------------------------------------ arguments of the calls
Horizons == 2..MaxN
Q_in == << <<2, 1>>, <<1, 4>> >>
R_in == << <<2>> >>
Z_in == << <<2, -1>>, <<-1, 6>> >>
q_in == <<1, -2>>
r_in == <<3>>
z_in == <<-1, 2>>
Qt_in == << <<4, -1>>, <<-1, 2>> >>
Rt_in == << <<6>> >>
Zt_in == << <<4, 1>>, <<1, 2>> >>
qt_in == <<-3, 1>>
rt_in == <<-2>>
zt_in == <<2, -3>>
\* reference trajectories with N columns
xtraj_in(N) == << [n \in 1..N |-> n], [n \in 1..N |-> 1 - n] >>
utraj_in(N) == << [n \in 1..N |-> 2 - n] >>
alphatraj_in(N) == << [n \in 1..N |-> 1], [n \in 1..N |-> n - 1] >>
Opt(v) == {None, Some(v)}

\* --------------------------------------------------------------- state
VARIABLES
    vf,      \* the ValueFunction instance: N and its settable fields
    prog,    \* the tuple of the last traj_opt_constraint call (None before)
    built,   \* the fields of vf that call read
    probe,   \* an evaluation of the objective and of traj_cost at a point,
             \* until it returns
    closure, \* the closure obtained from vf: "none", "V", "Q" or "diff"
    call,    \* the evaluation: the parameters, and the solver's variables
             \* (x, s) and alpha, assigned one coordinate at a time
    ret,     \* what the last call of a closure returned
    ctx,     \* the context a differentiable layer's forward saves for backward
    grad,    \* what the last call of backward returned or raised
    grid,    \* a running call of one of the sample-grid methods (None otherwise)
    mip,     \* mip_utils: the arguments and the result of a bound computation
    held,    \* the context and the outputs of an earlier forward call whose
             \* backward has not run yet (None when there is none)
    evals    \* evaluations by several callers: the parameter of each closure
             \* instance and each caller's position (None otherwise)

\* ValueFunction.__init__
ValueFunction(N) ==
    [cls |-> "ValueFunction", N |-> N,
     Q |-> None, R |-> None, Z |-> None, q |-> None, r |-> None, z |-> None,
     Qt |-> None, Rt |-> None, Zt |-> None, qt |-> None, rt |-> None, zt |-> None,
     x0 |-> None, xN |-> None,
     xtraj |-> None, utraj |-> None, alphatraj |-> None,
     constant_controls |-> <<>>]

Keep(old, new) == IF IsNone(new) THEN old ELSE new
\* variant: every field takes its argument, a None argument included
set_cost_fields_clearing(self, Q, R, Z, q, r, z) ==
    [self EXCEPT !.Q = Q, !.R = R, !.Z = Z, !.q = q, !.r = r, !.z = z]
set_cost_fields(self, Q, R, Z, q, r, z) ==
    [self EXCEPT !.Q = Keep(@, Q), !.R = Keep(@, R), !.Z = Keep(@, Z),
                 !.q = Keep(@, q), !.r = Keep(@, r), !.z = Keep(@, z)]
set_terminal_cost_fields(self, Qt, Rt, Zt, qt, rt, zt) ==
    [self EXCEPT !.Qt = Keep(@, Qt), !.Rt = Keep(@, Rt), !.Zt = Keep(@, Zt),
                 !.qt = Keep(@, qt), !.rt = Keep(@, rt), !.zt = Keep(@, zt)]
set_traj_fields(self, xtraj, utraj, alphatraj) ==
    [self EXCEPT !.xtraj = Keep(@, xtraj), !.utraj = Keep(@, utraj),
                 !.alphatraj = Keep(@, alphatraj)]
set_constraints_fields(self, x0, xN) ==
    [self EXCEPT !.x0 = Keep(@, x0), !.xN = Keep(@, xN)]

\* number of cost and reference fields that are set
CostFieldNames == {"Q", "R", "Z", "q", "r", "z", "Qt", "Rt", "Zt", "qt", "rt", "zt",
                   "xtraj", "utraj", "alphatraj"}
NumCostFields(self) == Cardinality({f \in CostFieldNames : ~IsNone(self[f])})


objVars == <<vf, prog, built>>
evalVars == <<closure, call, ret, ctx, grad>>
vars == <<vf, prog, built, probe, closure, call, ret, ctx, grad, grid, mip, held, evals>>

Idle == [pc |-> "idle", x |-> <<>>, u |-> None, xs |-> <<>>, al |-> <<>>]
Quiet == IsNone(probe) /\ call.pc = "idle"

\* ------------------------------------------------------------ setters
set_cost(Q, R, Z, q, r, z) ==
    /\ Quiet
    /\ vf' = set_cost_fields(vf, Q, R, Z, q, r, z)
    /\ UNCHANGED <<prog, built, probe, evalVars, grid, mip, held, evals>>
set_terminal_cost(Qt, Rt, Zt, qt, rt, zt) ==
    /\ Quiet
    /\ vf' = set_terminal_cost_fields(vf, Qt, Rt, Zt, qt, rt, zt)
    /\ UNCHANGED <<prog, built, probe, evalVars, grid, mip, held, evals>>
set_traj(xtraj, utraj, alphatraj) ==
    /\ Quiet
    /\ vf' = set_traj_fields(vf, xtraj, utraj, alphatraj)
    /\ UNCHANGED <<prog, built, probe, evalVars, grid, mip, held, evals>>
set_constraints(x0, xN) ==
    /\ Quiet
    /\ vf' = set_constraints_fields(vf, x0, xN)
    /\ UNCHANGED <<prog, built, probe, evalVars, grid, mip, held, evals>>
set_constant_control(control_index) ==
    /\ Quiet
    /\ vf' = [vf EXCEPT !.constant_controls = Append(@, control_index)]
    /\ UNCHANGED <<prog, built, probe, evalVars, grid, mip, held, evals>>

\* a direct call of traj_opt_constraint; the caller keeps the tuple
\* variant: the call consumes the reference trajectory it has read
Assemble_consuming_xtraj ==
    /\ Quiet
    /\ prog' = Some(traj_opt_constraint(vf))
    /\ built' = Some(vf)
    /\ vf' = [vf EXCEPT !.xtraj = None]
    /\ UNCHANGED <<probe, evalVars, grid, mip, held, evals>>
Assemble ==
    /\ Quiet
    /\ prog' = Some(traj_opt_constraint(vf))
    /\ built' = Some(vf)
    /\ UNCHANGED <<vf, probe, evalVars, grid, mip, held, evals>>

\* points with at most MaxProbeNonZero non-zero coordinates
ProbeVals == {-1, 1}
RECURSIVE SparsePoints(_, _)
SparsePoints(n, k) ==
    IF k = 0 THEN {Zeros(n)}
    ELSE LET P == SparsePoints(n, k - 1) IN
         P \cup {[p EXCEPT ![i] = v] : p \in P, i \in 1..n, v \in ProbeVals}
ProbePoints(n) == SparsePoints(n, MaxProbeNonZero)

\* evaluate the objective of the tuple and traj_cost of the recovered
\* trajectory at one point (x, s, alpha) of the assembled dimensions
EvalCost(p) ==
    /\ Quiet /\ ~IsNone(prog)
    /\ LET N == vf.N
           x == SubSeq(p, 1, xdim)
           s == SubSeq(p, xdim + 1, xdim + sdim(N))
           alpha == SubSeq(p, xdim + sdim(N) + 1, xdim + sdim(N) + alphadim(N))
       IN probe' = Some([x |-> x, s |-> s, alpha |-> alpha,
                         obj |-> Objective(Get(prog), x, s, alpha),
                         cost |-> traj_cost(vf, sol_to_traj(vf, x, Some(s), Some(alpha)))])
    /\ UNCHANGED <<vf, prog, built, evalVars, grid, mip, held, evals>>

\* the evaluation returns; the calls are synchronous, so no other call
\* starts before
EvalReturn ==
    /\ ~IsNone(probe)
    /\ probe' = None
    /\ UNCHANGED <<vf, prog, built, evalVars, grid, mip, held, evals>>

InitCost ==
    /\ vf \in {ValueFunction(N) : N \in Horizons}
    /\ prog = None /\ built = None /\ probe = None
    /\ closure = "none" /\ call = Idle /\ ret = None
    /\ ctx = None /\ grad = None
    /\ grid = None /\ mip = None /\ held = None /\ evals = None

\* the cost and reference fields are set, the tuple is assembled, and it is
\* evaluated while it is the tuple of the current fields
NextCost ==
    \/ \E Q \in Opt(Q_in), R \in Opt(R_in), Z \in Opt(Z_in),
          q \in Opt(q_in), r \in Opt(r_in), z \in Opt(z_in) :
            set_cost(Q, R, Z, q, r, z) /\ NumCostFields(vf') <= MaxCostFields
    \/ \E Qt \in Opt(Qt_in), Rt \in Opt(Rt_in), Zt \in Opt(Zt_in),
          qt \in Opt(qt_in), rt \in Opt(rt_in), zt \in Opt(zt_in) :
            set_terminal_cost(Qt, Rt, Zt, qt, rt, zt) /\ NumCostFields(vf') <= MaxCostFields
    \/ \E xtraj \in Opt(xtraj_in(vf.N)), utraj \in Opt(utraj_in(vf.N)),
          alphatraj \in Opt(alphatraj_in(vf.N)) :
            set_traj(xtraj, utraj, alphatraj) /\ NumCostFields(vf') <= MaxCostFields
    \/ Assemble
    \/ /\ Quiet /\ ~IsNone(prog) /\ Get(built) = vf
       /\ \E p \in ProbePoints(xdim + sdim(vf.N) + alphadim(vf.N)) : EvalCost(p)
    \/ EvalReturn

SpecCost == InitCost /\ [][NextCost]_vars

\* C1: at every point (x, s, alpha), the objective of the tuple returned by
\* traj_opt_constraint equals traj_cost of the trajectory that sol_to_traj
\* recovers from the same point, whatever cost and reference fields are set.
C1_ObjectiveIsTrajCost ==
    ~IsNone(probe) => Get(probe).obj = Get(probe).cost
C1_Witness ==
    /\ ~IsNone(probe) /\ vf.N >= 3
    /\ ~IsNone(vf.Q) /\ ~IsNone(vf.xtraj)
    /\ Get(probe).s # Zeros(sdim(vf.N))
    /\ Get(probe).cost # 0


\* ------------------------------------------------- the mixed-integer solve
\* con = [Ain1@x0 + Ain2@s + Ain3@alpha <= rhs_in,
\*        Aeq1@x0 + Aeq2@s + Aeq3@alpha == rhs_eq]
SatIn(P, x, s, alpha) ==
    \A r \in 1..Len(P.rhs_in) :
        Dot(P.Ain1[r], x) + Dot(P.Ain2[r], s) + Dot(P.Ain3[r], alpha) <= P.rhs_in[r]
SatEq(P, x, s, alpha) ==
    \A r \in 1..Len(P.rhs_eq) :
        Dot(P.Aeq1[r], x) + Dot(P.Aeq2[r], s) + Dot(P.Aeq3[r], alpha) = P.rhs_eq[r]
\* the additional constraint of the Q-function: s[:u_dim] == u0
\* variant: the program of the Q-function has no additional constraint
SatU0_unpinned(u, s) == TRUE
SatU0(u, s) == IF IsNone(u) THEN TRUE ELSE Slice(s, 0, sys_u_dim) = Get(u)
Feasible(P, x, u, s, alpha) == SatIn(P, x, s, alpha) /\ SatEq(P, x, s, alpha) /\ SatU0(u, s)

\* The solver is modelled as a search over integer points: it assigns the
\* coordinates one at a time, step by step (alpha of the step, then its
\* input and slack, then the next state), and gives up a partial
\* assignment as soon as a constraint row all of whose variables are
\* assigned is violated.  xs is the assigned prefix of s, al of alpha.
Vals == (0 - MaxVal)..MaxVal
Decided(coef, v) == \A j \in (Len(v) + 1)..Len(coef) : coef[j] = 0
Part(coef, v) == SumSeq([j \in 1..Len(v) |-> coef[j] * v[j]])
RowsOK(P, x, u, xs, al) ==
    /\ \A r \in 1..Len(P.rhs_in) :
          (Decided(P.Ain2[r], xs) /\ Decided(P.Ain3[r], al))
          => Dot(P.Ain1[r], x) + Part(P.Ain2[r], xs) + Part(P.Ain3[r], al) <= P.rhs_in[r]
    /\ \A r \in 1..Len(P.rhs_eq) :
          (Decided(P.Aeq2[r], xs) /\ Decided(P.Aeq3[r], al))
          => Dot(P.Aeq1[r], x) + Part(P.Aeq2[r], xs) + Part(P.Aeq3[r], al) = P.rhs_eq[r]
    /\ IF Len(xs) >= sys_u_dim THEN SatU0(u, xs) ELSE TRUE
NextIsAlpha(N, xs, al) ==
    Len(al) < alphadim(N) /\ Len(al) < (Len(xs) \div blk + 1) * adim
Assigned(N, xs, al) == Len(xs) = sdim(N) /\ Len(al) = alphadim(N)

\* get_value_function / get_q_function: assemble the program of the closure
get_value_function ==
    /\ Quiet /\ vf.cls = "ValueFunction"
    /\ prog' = Some(traj_opt_constraint(vf))
    /\ built' = Some(vf)
    /\ closure' = "V"
    /\ UNCHANGED <<vf, probe, call, ret, ctx, grad, grid, mip, held, evals>>
get_q_function ==
    /\ Quiet /\ vf.cls = "ValueFunction"
    /\ prog' = Some(traj_opt_constraint(vf))
    /\ built' = Some(vf)
    /\ closure' = "Q"
    /\ UNCHANGED <<vf, probe, call, ret, ctx, grad, grid, mip, held, evals>>

\* V(x): x0.value = x; prob.solve(...)
V(x) ==
    /\ Quiet /\ closure = "V"
    /\ call' = [pc |-> "solve", x |-> x, u |-> None, xs |-> <<>>, al |-> <<>>]
    /\ ret' = None
    /\ UNCHANGED <<vf, prog, built, probe, closure, ctx, grad, grid, mip, held, evals>>
\* Q(x, u): x0.value = x; u0.value = u; prob.solve(...)
Q(x, u) ==
    /\ Quiet /\ closure = "Q"
    /\ call' = [pc |-> "solve", x |-> x, u |-> Some(u), xs |-> <<>>, al |-> <<>>]
    /\ ret' = None
    /\ UNCHANGED <<vf, prog, built, probe, closure, ctx, grad, grid, mip, held, evals>>

\* one step of the search
SolveStep ==
    /\ call.pc = "solve"
    /\ ~Assigned(vf.N, call.xs, call.al)
    /\ IF Len(call.xs) = 0 /\ Len(call.al) = 0
       THEN RowsOK(Get(prog), call.x, call.u, call.xs, call.al) ELSE TRUE
    /\ \E v \in Vals :
          /\ IF NextIsAlpha(vf.N, call.xs, call.al)
             THEN v \in {0, 1} /\ call' = [call EXCEPT !.al = Append(@, v)]
             ELSE call' = [call EXCEPT !.xs = Append(@, v)]
          /\ RowsOK(Get(prog), call.x, call.u, call'.xs, call'.al)
    /\ UNCHANGED <<vf, prog, built, probe, closure, ret, ctx, grad, grid, mip, held, evals>>

\* the solve ends with a point: obj.value is not None
ReturnValue ==
    /\ call.pc = "solve" /\ closure \in {"V", "Q"}
    /\ Assigned(vf.N, call.xs, call.al)
    /\ Feasible(Get(prog), call.x, call.u, call.xs, call.al)
    /\ ret' = <<Some(Objective(Get(prog), call.x, call.xs, call.al)),
                Some(call.xs), Some(call.al)>>
    /\ call' = [call EXCEPT !.pc = "idle"]
    /\ UNCHANGED <<vf, prog, built, probe, closure, ctx, grad, grid, mip, held, evals>>
\* variant: without a point, only the cost of the triple is None
ReturnNone_cost_only ==
    /\ call.pc = "solve" /\ closure \in {"V", "Q"}
    /\ ~Assigned(vf.N, call.xs, call.al)
    /\ ret' = <<None, Some(call.xs), Some(call.al)>>
    /\ call' = [call EXCEPT !.pc = "idle", !.xs = <<>>, !.al = <<>>]
    /\ UNCHANGED <<vf, prog, built, probe, closure, ctx, grad, grid, mip, held, evals>>
\* the solve ends without a point (infeasible or failed): obj.value is None
\* and the variables hold no value
ReturnNone ==
    /\ call.pc = "solve" /\ closure \in {"V", "Q"}
    /\ ~Assigned(vf.N, call.xs, call.al)
    /\ ret' = <<None, None, None>>
    /\ call' = [call EXCEPT !.pc = "idle", !.xs = <<>>, !.al = <<>>]
    /\ UNCHANGED <<vf, prog, built, probe, closure, ctx, grad, grid, mip, held, evals>>

\* the caller recovers the trajectories of the returned solution
\* (x_traj, u_traj, alpha_traj) = vf.sol_to_traj(x, s, alpha)
SolToTraj ==
    /\ Quiet /\ closure \in {"V", "Q"} /\ ~IsNone(ret)
    /\ probe' = Some([x |-> call.x, s |-> ret[2], alpha |-> ret[3],
                      traj |-> sol_to_traj(vf, call.x, ret[2], ret[3])])
    /\ UNCHANGED <<vf, prog, built, evalVars, grid, mip, held, evals>>

\* ------------------------------------------------------ NLPValueFunction
\* Two modes with one state and one input each; the bounds of both modes are
\* x_lo = u_lo = [0] and x_up = u_up = [1], and the time step is bounded by
\* dt_lo = 0 and dt_up = 1 (in tenths).  The object keeps the knot points
\* (x_traj, u_traj, dt_traj: the names of the decision variables; mode_traj;
\* N = len(x_traj)), the bounding-box and the nonlinear constraints, the
\* costs added to its MathematicalProgram, x0_constraint and Qt.
nlp_x_lo == <<0>>
nlp_x_up == <<1>>
nlp_u_lo == <<0>>
nlp_u_up == <<1>>
nlp_dt_lo == <<0>>
nlp_dt_up == <<1>>
\* prog.NewContinuousVariables(dim, name + str(n))
knot_var(name, n) == <<name, n>>
\* np.concatenate([x, u, dt]) of knot point n
knot_vars(n) == <<knot_var("x", n), knot_var("u", n), knot_var("dt", n)>>
\* add_bb_constraint: prog.AddBoundingBoxConstraint(lb, ub, vars), appended
add_bb_constraint(self, lb, ub, variables) ==
    [self EXCEPT !.bb_constraints = Append(@, [lb |-> lb, ub |-> ub, vars |-> variables])]
\* prog.AddQuadraticErrorCost(Q, x_desired, vars) and
\* prog.AddQuadraticCost(Q, b=0, c=0, vars): var names the knot point's x or u
QuadraticErrorCost(W, x_desired, var) == [kind |-> "error", Q |-> W, x_desired |-> x_desired, var |-> var]
QuadraticCost(W, var) == [kind |-> "quadratic", Q |-> W, x_desired |-> <<>>, var |-> var]

\* variant: the time step of the new knot point is left unbounded
add_knot_point_unbounded_dt(self, mode) ==
    LET n == self.N
        cx == IF IsNone(self.Q) THEN <<>>
              ELSE IF ~IsNone(self.x_desired)
                   THEN <<QuadraticErrorCost(Get(self.Q)[mode + 1],
                                             Get(self.x_desired)[mode + 1], <<"x", n>>)>>
                   ELSE <<QuadraticCost(Get(self.Q)[mode + 1], <<"x", n>>)>>
        cu == IF IsNone(self.R) THEN <<>>
              ELSE <<QuadraticCost(Get(self.R)[mode + 1], <<"u", n>>)>>
        x == knot_var("x", Len(self.x_traj))
        u == knot_var("u", Len(self.u_traj))
        dt == knot_var("dt", Len(self.dt_traj))
        appended == [self EXCEPT !.N = @ + 1,
                                 !.x_traj = Append(@, x), !.u_traj = Append(@, u),
                                 !.dt_traj = Append(@, dt), !.mode_traj = Append(@, mode)]
        bounded == add_bb_constraint(
                      add_bb_constraint(appended, nlp_x_lo, nlp_x_up, x),
                      nlp_u_lo, nlp_u_up, u)
    IN [bounded EXCEPT !.costs = @ \o cx \o cu]
add_knot_point(self, mode) ==
    LET n == self.N
        cx == IF IsNone(self.Q) THEN <<>>
              ELSE IF ~IsNone(self.x_desired)
                   THEN <<QuadraticErrorCost(Get(self.Q)[mode + 1],
                                             Get(self.x_desired)[mode + 1], <<"x", n>>)>>
                   ELSE <<QuadraticCost(Get(self.Q)[mode + 1], <<"x", n>>)>>
        cu == IF IsNone(self.R) THEN <<>>
              ELSE <<QuadraticCost(Get(self.R)[mode + 1], <<"u", n>>)>>
        x == knot_var("x", Len(self.x_traj))
        u == knot_var("u", Len(self.u_traj))
        dt == knot_var("dt", Len(self.dt_traj))
        appended == [self EXCEPT !.N = @ + 1,
                                 !.x_traj = Append(@, x), !.u_traj = Append(@, u),
                                 !.dt_traj = Append(@, dt), !.mode_traj = Append(@, mode)]
        bounded == add_bb_constraint(
                      add_bb_constraint(
                         add_bb_constraint(appended, nlp_x_lo, nlp_x_up, x),
                         nlp_u_lo, nlp_u_up, u),
                      nlp_dt_lo, nlp_dt_up, dt)
    IN [bounded EXCEPT !.costs = @ \o cx \o cu]

\* NLPValueFunction.__init__
NLPValueFunction(init_mode, Qs, x_desired, Rs) ==
    add_knot_point([cls |-> "NLPValueFunction", x_dim |-> <<1, 1>>, u_dim |-> <<1, 1>>,
                    Q |-> Qs, x_desired |-> x_desired, R |-> Rs,
                    N |-> 0, x_traj |-> <<>>, u_traj |-> <<>>, dt_traj |-> <<>>,
                    mode_traj |-> <<>>, nl_constraints |-> <<>>, bb_constraints |-> <<>>,
                    costs |-> <<>>,
                    x0_constraint |-> FALSE, Qt |-> None], init_mode)

\* add_nl_constraint: prog.AddConstraint(fun, lb, ub, vars), appended
add_nl_constraint(self, fun, lb, ub, variables) ==
    [self EXCEPT !.nl_constraints = Append(@, [fun |-> fun, lb |-> lb, ub |-> ub,
                                               vars |-> variables])]
\* get_last_knot_point: the index of x_traj[-1], u_traj[-1], dt_traj[-1]
get_last_knot_point(self) == Len(self.x_traj) - 1
\* np.zeros(n) as bounds
zero_bounds(n) == [i \in 1..n |-> Fin(0)]

\* add_mode: for n in range(N): a knot point in the mode of the last knot
\* point, the dynamics constraint on the two knot points, and when a guard is
\* given the guard constraint on the new knot point; a guard without
\* guard_jax fails the assertion after the first knot point and its dynamics
\* constraint have been added
RECURSIVE add_mode_loop(_, _, _, _)
add_mode_loop(self, n, guard, guard_jax) ==
    IF n = 0 THEN self
    ELSE LET n0 == get_last_knot_point(self)
             mode0 == self.mode_traj[Len(self.mode_traj)]
             k == add_nl_constraint(add_knot_point(self, mode0), "dyn_fun",
                                    zero_bounds(self.x_dim[mode0 + 1]),
                                    zero_bounds(self.x_dim[mode0 + 1]),
                                    knot_vars(n0) \o knot_vars(n0 + 1))
         IN IF ~guard THEN add_mode_loop(k, n - 1, guard, guard_jax)
            ELSE IF ~guard_jax THEN k
            ELSE add_mode_loop(add_nl_constraint(k, "guard", <<Fin(0)>>, <<PosInf>>,
                                                 knot_vars(n0 + 1)),
                               n - 1, guard, guard_jax)
add_mode(N, guard, guard_jax) ==
    /\ Quiet /\ vf.cls = "NLPValueFunction" /\ closure = "none"
    /\ vf' = add_mode_loop(vf, N, guard, guard_jax)
    /\ UNCHANGED <<prog, built, probe, evalVars, grid, mip, held, evals>>
\* a call of add_knot_point(mode) by the user of the object
AddKnotPoint(mode) ==
    /\ Quiet /\ vf.cls = "NLPValueFunction" /\ closure = "none"
    /\ vf' = add_knot_point(vf, mode)
    /\ UNCHANGED <<prog, built, probe, evalVars, grid, mip, held, evals>>
\* variant: the guard of the knot point before is an inequality (>= 0)
add_transition_guard_nonnegative(new_mode) ==
    /\ Quiet /\ vf.cls = "NLPValueFunction" /\ closure = "none"
    /\ LET n0 == get_last_knot_point(vf) IN
       vf' = add_nl_constraint(
                add_nl_constraint(add_knot_point(vf, new_mode), "transition_fun",
                                  zero_bounds(vf.x_dim[new_mode + 1]),
                                  zero_bounds(vf.x_dim[new_mode + 1]),
                                  knot_vars(n0) \o knot_vars(n0 + 1)),
                "guard", <<Fin(0)>>, <<PosInf>>, knot_vars(n0))
    /\ UNCHANGED <<prog, built, probe, evalVars, grid, mip, held, evals>>
\* add_transition: a knot point in the new mode, the transition constraint
\* on the two knot points and the guard (= 0) on the knot point before
add_transition(new_mode) ==
    /\ Quiet /\ vf.cls = "NLPValueFunction" /\ closure = "none"
    /\ LET n0 == get_last_knot_point(vf) IN
       vf' = add_nl_constraint(
                add_nl_constraint(add_knot_point(vf, new_mode), "transition_fun",
                                  zero_bounds(vf.x_dim[new_mode + 1]),
                                  zero_bounds(vf.x_dim[new_mode + 1]),
                                  knot_vars(n0) \o knot_vars(n0 + 1)),
                "guard", <<Fin(0)>>, <<Fin(0)>>, knot_vars(n0))
    /\ UNCHANGED <<prog, built, probe, evalVars, grid, mip, held, evals>>
\* add_init_state_constraint: assert(self.x0_constraint is None); a
\* bounding box [0, 0] on x0, whose bounds V(x) sets to x
add_init_state_constraint ==
    /\ Quiet /\ vf.cls = "NLPValueFunction" /\ closure = "none"
    /\ ~vf.x0_constraint
    /\ vf' = [add_bb_constraint(vf, Zeros(vf.x_dim[vf.mode_traj[1] + 1]),
                                Zeros(vf.x_dim[vf.mode_traj[1] + 1]), knot_var("x", 0))
                 EXCEPT !.x0_constraint = TRUE]
    /\ UNCHANGED <<prog, built, probe, evalVars, grid, mip, held, evals>>
\* variant: the terminal cost is added without the assertion on self.Qt
add_terminal_state_cost_unasserted(Qt) ==
    /\ Quiet /\ vf.cls = "NLPValueFunction" /\ closure = "none"
    /\ ~IsNone(vf.x_desired)
    /\ vf' = [vf EXCEPT !.Qt = Some(Qt),
                        !.costs = @ \o <<QuadraticErrorCost(Qt,
                              Get(vf.x_desired)[Len(Get(vf.x_desired))], <<"x", vf.N - 1>>)>>]
    /\ UNCHANGED <<prog, built, probe, evalVars, grid, mip, held, evals>>
\* add_terminal_state_cost: assert(self.Qt is None); reads x_desired[-1]
add_terminal_state_cost(Qt) ==
    /\ Quiet /\ vf.cls = "NLPValueFunction" /\ closure = "none"
    /\ IsNone(vf.Qt) /\ ~IsNone(vf.x_desired)
    /\ vf' = [vf EXCEPT !.Qt = Some(Qt),
                        !.costs = @ \o <<QuadraticErrorCost(Qt,
                              Get(vf.x_desired)[Len(Get(vf.x_desired))], <<"x", vf.N - 1>>)>>]
    /\ UNCHANGED <<prog, built, probe, evalVars, grid, mip, held, evals>>

\* a result of solver.Solve: the values of the knot points' x and u
result_to_s(result) ==
    LET RECURSIVE rest(_)
        rest(i) == IF i > Len(result.x_traj) THEN <<>>
                   ELSE result.x_traj[i] \o result.u_traj[i] \o rest(i + 1)
    IN result.u_traj[1] \o rest(2)
\* result.get_optimal_cost(): the costs of the program at the solution
get_optimal_cost(self, result) ==
    LET val(c) == IF c.var[1] = "x" THEN result.x_traj[c.var[2] + 1]
                  ELSE result.u_traj[c.var[2] + 1]
        one(c) == IF c.kind = "error"
                  THEN QuadForm(VecSub(val(c), c.x_desired), c.Q)
                  ELSE Half(QuadForm(val(c), c.Q))
    IN SumSeq([i \in 1..Len(self.costs) |-> one(self.costs[i])])

\* NLPValueFunction.get_value_function: assert(self.x0_constraint is not None)
NLP_get_value_function ==
    /\ Quiet /\ vf.cls = "NLPValueFunction" /\ closure = "none"
    /\ vf.x0_constraint
    /\ closure' = "nlpV"
    /\ UNCHANGED <<vf, prog, built, probe, call, ret, ctx, grad, grid, mip, held, evals>>
\* V(x): x0_constraint.evaluator().set_bounds(x, x); result = solver.Solve(...)
NLP_V(x) ==
    /\ Quiet /\ closure = "nlpV"
    /\ call' = [pc |-> "nlpsolve", x |-> x, u |-> None, xs |-> <<>>, al |-> <<>>]
    /\ ret' = None
    /\ UNCHANGED <<vf, prog, built, probe, closure, ctx, grad, grid, mip, held, evals>>
\* the results the solver can report as a success: x_traj[0] is x, within the
\* bounds of the mode, and the other values are any values of NLPVals
NLPVals == {0, 1}
InBox(v, lo, up) == \A i \in 1..Len(v) : lo[i] <= v[i] /\ v[i] <= up[i]
Results(self, x) ==
    IF ~InBox(x, nlp_x_lo, nlp_x_up) THEN {}
    ELSE {[x_traj |-> [n \in 1..self.N |-> IF n = 1 THEN x ELSE <<xv[n]>>],
           u_traj |-> [n \in 1..self.N |-> <<uv[n]>>]] :
             xv \in [1..self.N -> NLPVals], uv \in [1..self.N -> NLPVals]}
\* result.is_success(): (v_val, s_val, alpha_val)
NLP_ReturnValue ==
    /\ call.pc = "nlpsolve" /\ closure = "nlpV"
    /\ \E result \in Results(vf, call.x) :
          /\ ret' = <<Some(get_optimal_cost(vf, result)), Some(result_to_s(result)),
                      Some(Zeros(vf.N))>>
          /\ call' = [call EXCEPT !.pc = "idle", !.xs = result_to_s(result)]
    /\ UNCHANGED <<vf, prog, built, probe, closure, ctx, grad, grid, mip, held, evals>>
\* not result.is_success(): (None, None, None)
NLP_ReturnNone ==
    /\ call.pc = "nlpsolve" /\ closure = "nlpV"
    /\ ret' = <<None, None, None>>
    /\ call' = [call EXCEPT !.pc = "idle"]
    /\ UNCHANGED <<vf, prog, built, probe, closure, ctx, grad, grid, mip, held, evals>>

\* ------------------------------------------------ the evaluation closures
\* arguments of set_constraints: each entry NaN or a number
NaN == <<>>
X0Args == {None, Some(<<Some(0), NaN>>), Some(<<Some(1), Some(0)>>)}
XNArgs == {None, Some(<<NaN, Some(1)>>), Some(<<Some(0), Some(0)>>)}
MaxConstantControls == 1
Points == {<<a, b>> : a \in Vals, b \in Vals}
\* arguments of the NLPValueFunction constructor: Q, x_desired, R per mode
NLP_Q_in == << << <<2>> >>, << <<4>> >> >>
NLP_x_desired_in == << <<1>>, <<0>> >>
NLP_R_in == << << <<2>> >>, << <<2>> >> >>
NLP_Qt_in == << <<6>> >>
NLPArgs == {<<None, None, None>>,
            <<Some(NLP_Q_in), None, Some(NLP_R_in)>>,
            <<Some(NLP_Q_in), Some(NLP_x_desired_in), None>>}
NLPPoints == {<<a>> : a \in 0..MaxVal}

Init ==
    /\ vf \in {ValueFunction(N) : N \in Horizons}
              \cup {NLPValueFunction(m, a[1], a[2], a[3]) : m \in {0, 1}, a \in NLPArgs}
    /\ prog = None /\ built = None /\ probe = None
    /\ closure = "none" /\ call = Idle /\ ret = None
    /\ ctx = None /\ grad = None
    /\ grid = None /\ mip = None /\ held = None /\ evals = None

\* the options are set and the knot points added before the closure is
\* obtained; the closure is then called any number of times
Next ==
    \/ /\ closure = "none" /\ vf.cls = "ValueFunction"
       /\ \E x0 \in X0Args, xN \in XNArgs : set_constraints(x0, xN)
    \/ /\ closure = "none" /\ vf.cls = "ValueFunction"
       /\ Len(vf.constant_controls) < MaxConstantControls
       /\ \E i \in 0..(sys_u_dim - 1) : set_constant_control(i)
    \/ (closure = "none" /\ get_value_function)
    \/ (closure = "none" /\ get_q_function)
    \/ \E x \in Points : V(x)
    \/ \E x \in Points, u \in {<<a>> : a \in Vals} : Q(x, u)
    \/ SolveStep
    \/ ReturnValue
    \/ ReturnNone
    \/ SolToTraj
    \/ EvalReturn
    \/ \E n \in 1..(MaxN - 1), guard \in BOOLEAN, guard_jax \in BOOLEAN :
          vf.N + n <= MaxN /\ add_mode(n, guard, guard_jax)
    \/ \E m \in {0, 1} : vf.N + 1 <= MaxN /\ add_transition(m)
    \/ add_init_state_constraint
    \/ add_terminal_state_cost(NLP_Qt_in)
    \/ NLP_get_value_function
    \/ \E x \in NLPPoints : NLP_V(x)
    \/ NLP_ReturnValue
    \/ NLP_ReturnNone

Spec == Init /\ [][Next]_vars

\* ----------------------------------------------- claims on the closures
\* C2: the tuple returned by traj_opt_constraint has consistent dimensions:
\* x_dim, s_dim and adim*N columns, N*num_in_dyn + 2*N*(x_dim+u_dim)
\* inequality rows, and (N-1)*x_dim + N + (non-NaN entries of x0 and of xN)
\* + (N-1)*len(constant_controls) equality rows, in every block.
C2_ConsistentDimensions ==
    (~IsNone(prog) /\ call.pc = "idle" /\ IsNone(ret)) =>
        LET P == Get(prog)
            self == Get(built)
            N == self.N
            cnt(o) == IF IsNone(o) THEN 0
                      ELSE Cardinality({i \in 1..Len(Get(o)) : Get(o)[i] # NaN})
            s_dim == (sys_x_dim + sys_u_dim + Cols(mixed_integer_constraints.Ain_slack)) * N
                     - sys_x_dim
            a_dim == Cols(mixed_integer_constraints.Ain_alpha) * N
            rin == N * Len(mixed_integer_constraints.rhs_in_dyn)
                   + 2 * N * (sys_x_dim + sys_u_dim)
            req == (N - 1) * sys_x_dim + N + cnt(self.x0) + cnt(self.xN)
                   + (N - 1) * Len(self.constant_controls)
        IN /\ Len(P.Ain1) = rin /\ Len(P.Ain2) = rin /\ Len(P.Ain3) = rin
           /\ Len(P.rhs_in) = rin
           /\ Len(P.Aeq1) = req /\ Len(P.Aeq2) = req /\ Len(P.Aeq3) = req
           /\ Len(P.rhs_eq) = req
           /\ \A r \in 1..Len(P.Ain1) : Len(P.Ain1[r]) = sys_x_dim
           /\ \A r \in 1..Len(P.Ain2) : Len(P.Ain2[r]) = s_dim
           /\ \A r \in 1..Len(P.Ain3) : Len(P.Ain3[r]) = a_dim
           /\ \A r \in 1..Len(P.Aeq1) : Len(P.Aeq1[r]) = sys_x_dim
           /\ \A r \in 1..Len(P.Aeq2) : Len(P.Aeq2[r]) = s_dim
           /\ \A r \in 1..Len(P.Aeq3) : Len(P.Aeq3[r]) = a_dim
C2_Witness ==
    /\ ~IsNone(prog) /\ Get(built).N = MaxN
    /\ Get(built).x0 = Some(<<Some(0), NaN>>)
    /\ Get(built).xN = Some(<<NaN, Some(1)>>)
    /\ Len(Get(built).constant_controls) = 1

\* re-flattening of recovered trajectories, the inverse of the reshape of
\* sol_to_traj: the columns (x_traj[:, n], u_traj[:, n]) one after the other
flatten_traj(x_traj, u_traj) ==
    LET RECURSIVE from(_)
        from(n) == IF n >= Cols(x_traj) THEN <<>>
                   ELSE Col(x_traj, n) \o Col(u_traj, n) \o from(n + 1)
    IN from(0)

\* C3 (as stated): for a point (x0, s, alpha) satisfying the assembled
\* constraints, sol_to_traj followed by re-flattening reproduces (x0, s).
C3_RoundTripReproducesS ==
    (~IsNone(probe) /\ ~IsNone(Get(probe).s)) =>
        flatten_traj(Get(probe).traj.x_traj, Get(probe).traj.u_traj)
            = Get(probe).x \o Get(Get(probe).s)
\* C3 (amended): sol_to_traj followed by re-flattening reproduces x0 and the
\* state and input coordinates of s; the slack coordinates of s are dropped.
C3_RoundTripStateInput ==
    (~IsNone(probe) /\ ~IsNone(Get(probe).s)) =>
        LET v == Get(probe).x \o Get(Get(probe).s)
            w == Cols(mixed_integer_constraints.Ain_slack)
            per == sys_x_dim + sys_u_dim + w
            RECURSIVE keep(_)
            keep(k) == IF k > Len(v) THEN <<>>
                       ELSE (IF ((k - 1) % per) < sys_x_dim + sys_u_dim THEN <<v[k]>> ELSE <<>>)
                            \o keep(k + 1)
        IN flatten_traj(Get(probe).traj.x_traj, Get(probe).traj.u_traj) = keep(1)
C3_Witness ==
    /\ ~IsNone(probe) /\ ~IsNone(Get(probe).s) /\ vf.N = MaxN
    /\ Get(probe).x = <<1, 1>>
    /\ Get(probe).traj.u_traj[1][1] = -1
    /\ Get(Get(probe).s)[sys_u_dim + 1] # 0

\* C4: a closure returned by get_value_function or get_q_function of
\* ValueFunction or by get_value_function of NLPValueFunction returns
\* (None, None, None) when the solve ends without a point, and a triple
\* (cost, s, alpha) with no None component, s the solver's point, otherwise.
C4_NoneTripleOnFailure ==
    (closure \in {"V", "Q", "nlpV"} /\ call.pc = "idle" /\ ~IsNone(ret)) =>
        /\ Len(ret) = 3
        /\ IF call.xs = <<>>
           THEN ret = <<None, None, None>>
           ELSE ~IsNone(ret[1]) /\ ret[2] = Some(call.xs) /\ ~IsNone(ret[3])
C4_Witness ==
    /\ closure = "Q" /\ call.pc = "idle" /\ ret = <<None, None, None>>
    /\ call.x = <<0, 0>> /\ call.u = Some(<<1>>)

\* C8: for each constant-control index and each pair of consecutive steps
\* (i, i+1) the equality block has one row with +1 on u[i][index], -1 on
\* u[i+1][index], zeros elsewhere and right-hand side 0 (one per call of
\* set_constant_control(index)), and the input trajectory recovered from a
\* point satisfying the constraints is constant in that coordinate.
C8_ConstantControl ==
    /\ (~IsNone(prog) /\ call.pc = "idle" /\ IsNone(ret)) =>
          LET P == Get(prog)
              self == Get(built)
              N == self.N
              per == sys_x_dim + sys_u_dim + Cols(mixed_integer_constraints.Ain_slack)
              calls(index) == Cardinality({k \in 1..Len(self.constant_controls) :
                                              self.constant_controls[k] = index})
              row(i, index) == [j \in 1..(per * N - sys_x_dim) |->
                                   IF j = i * per + index + 1 THEN 1
                                   ELSE IF j = (i + 1) * per + index + 1 THEN -1
                                   ELSE 0]
          IN \A index \in 0..(sys_u_dim - 1), i \in 0..(N - 2) :
                Cardinality({r \in 1..Len(P.rhs_eq) :
                                /\ P.Aeq2[r] = row(i, index)
                                /\ \A j \in 1..Len(P.Aeq1[r]) : P.Aeq1[r][j] = 0
                                /\ \A j \in 1..Len(P.Aeq3[r]) : P.Aeq3[r][j] = 0
                                /\ P.rhs_eq[r] = 0}) = calls(index)
    /\ (~IsNone(probe) /\ ~IsNone(Get(probe).s)) =>
          \A k \in 1..Len(vf.constant_controls), n \in 1..vf.N :
              Get(probe).traj.u_traj[vf.constant_controls[k] + 1][n]
                  = Get(probe).traj.u_traj[vf.constant_controls[k] + 1][1]
C8_Witness ==
    /\ ~IsNone(probe) /\ ~IsNone(Get(probe).s) /\ vf.N = MaxN
    /\ vf.constant_controls = <<0>>
    /\ Get(probe).traj.u_traj[1] = [n \in 1..MaxN |-> -1]

\* C9: for every step n the equality block has exactly one row with ones on
\* alpha[n*adim:(n+1)*adim], zeros on the rest of alpha, on x and on s, and
\* right-hand side 1; a binary alpha returned by a solve has exactly one
\* active mode at every step.
C9_OneModePerStep ==
    /\ (~IsNone(prog) /\ call.pc = "idle" /\ IsNone(ret)) =>
          LET P == Get(prog)
              N == Get(built).N
              a == Cols(mixed_integer_constraints.Ain_alpha)
          IN \A n \in 0..(N - 1) :
                Cardinality({r \in 1..Len(P.rhs_eq) :
                                /\ P.Aeq3[r] = [j \in 1..(a * N) |->
                                                   IF n * a < j /\ j <= (n + 1) * a THEN 1 ELSE 0]
                                /\ \A j \in 1..Len(P.Aeq1[r]) : P.Aeq1[r][j] = 0
                                /\ \A j \in 1..Len(P.Aeq2[r]) : P.Aeq2[r][j] = 0
                                /\ P.rhs_eq[r] = 1}) = 1
    /\ (closure \in {"V", "Q"} /\ call.pc = "idle" /\ ~IsNone(ret) /\ ~IsNone(ret[3])) =>
          LET alpha == Get(ret[3])
              a == Cols(mixed_integer_constraints.Ain_alpha)
          IN \A n \in 0..(vf.N - 1) :
                Cardinality({j \in (n * a + 1)..((n + 1) * a) : alpha[j] = 1}) = 1
C9_Witness ==
    /\ closure = "V" /\ call.pc = "idle" /\ ~IsNone(ret) /\ ~IsNone(ret[3])
    /\ vf.N = MaxN
    /\ SubSeq(Get(ret[3]), 1, 4) = <<1, 0, 0, 1>>

\* C10: for every step (step 0 included) and every state and input
\* coordinate the inequality block has one upper-bound row and one
\* lower-bound row, with the bounds x_up, u_up, x_lo, u_lo, and no such row
\* on a slack coordinate; the trajectory recovered from a point satisfying
\* the constraints is within the bounds at every step, and a call with x0
\* outside [x_lo, x_up] returns (None, None, None).
C10_BoxOnStatesAndInputs ==
    /\ (~IsNone(prog) /\ call.pc = "idle" /\ IsNone(ret)) =>
          LET P == Get(prog)
              N == Get(built).N
              bounded == sys_x_dim + sys_u_dim
              per == bounded + Cols(mixed_integer_constraints.Ain_slack)
              unit(k, sgn) == [j \in 1..(per * N) |-> IF j = k + 1 THEN sgn ELSE 0]
              rows(k, sgn) == {r \in 1..Len(P.rhs_in) :
                                  /\ P.Ain1[r] \o P.Ain2[r] = unit(k, sgn)
                                  /\ \A j \in 1..Len(P.Ain3[r]) : P.Ain3[r][j] = 0}
          IN \A k \in 0..(per * N - 1) :
                IF (k % per) < bounded
                THEN /\ Cardinality(rows(k, 1)) = 1
                     /\ \A r \in rows(k, 1) : P.rhs_in[r] = (x_up \o u_up)[(k % per) + 1]
                     /\ Cardinality(rows(k, -1)) = 1
                     /\ \A r \in rows(k, -1) : P.rhs_in[r] = 0 - (x_lo \o u_lo)[(k % per) + 1]
                ELSE rows(k, 1) = {} /\ rows(k, -1) = {}
    /\ (~IsNone(probe) /\ ~IsNone(Get(probe).s)) =>
          \A n \in 1..vf.N :
              /\ \A i \in 1..sys_x_dim :
                    /\ x_lo[i] <= Get(probe).traj.x_traj[i][n]
                    /\ Get(probe).traj.x_traj[i][n] <= x_up[i]
              /\ \A i \in 1..sys_u_dim :
                    /\ u_lo[i] <= Get(probe).traj.u_traj[i][n]
                    /\ Get(probe).traj.u_traj[i][n] <= u_up[i]
    /\ (closure \in {"V", "Q"} /\ call.pc = "idle" /\ ~IsNone(ret)
        /\ \E i \in 1..sys_x_dim : call.x[i] < x_lo[i] \/ call.x[i] > x_up[i])
          => ret = <<None, None, None>>
C10_Witness ==
    /\ closure = "V" /\ call.pc = "idle" /\ ret = <<None, None, None>>
    /\ vf.N = MaxN /\ IsNone(vf.x0)
    /\ call.x = <<0, 0 - 1>>

\* ------------------------------------------- the differentiable layers
\* A tensor with NaN entries is a sequence of optional numbers.
\* torch.zeros(n) * float('nan') and a tensor of numbers
NaNs(n) == [i \in 1..n |-> NaN]
Nums(v) == [i \in 1..Len(v) |-> Some(v[i])]
\* x_traj_val[:, :-1].t().reshape((1, -1)): the columns but the last, in a row
x_traj_flat(x_traj) ==
    LET RECURSIVE from(_)
        from(n) == IF n >= Cols(x_traj) - 1 THEN <<>> ELSE Col(x_traj, n) \o from(n + 1)
    IN <<from(0)>>
\* [vf.step_cost(j, x_traj[:, j], u_traj[:, j], alpha_traj[:, j]) for j in range(N)]
step_costs(self, traj) ==
    [j \in 1..self.N |-> step_cost(self, j - 1, Col(traj.x_traj, j - 1),
                                   Col(traj.u_traj, j - 1), Some(Col(traj.alpha_traj, j - 1)))]
Reverse(v) == [i \in 1..Len(v) |-> v[Len(v) + 1 - i]]
cumsum(v) == [i \in 1..Len(v) |-> SumSeq(SubSeq(v, 1, i))]
\* variant: the running sums are taken from the first step on
cost_to_go_forward_sums(costs) == cumsum(costs)
\* list(np.cumsum(step_costs[::-1]))[::-1]
cost_to_go(costs) == Reverse(cumsum(Reverse(costs)))
\* the two outputs of forward, or the exception it raises
Outputs(flat, ctg) == [exc |-> "none", x_traj_flat |-> flat, cost_to_go |-> ctg]
Raises(exc) == [exc |-> exc, x_traj_flat |-> None, cost_to_go |-> None]
\* (torch.zeros((1, x_dim*(N-1)))*nan, torch.zeros(N-1)*nan)
nan_outputs(x_dim, N) == Outputs(<<NaNs(x_dim * (N - 1))>>, NaNs(N - 1))

\* ValueFunction.get_differentiable_value_function: the two programs are
\* built from the tuple; G0 = Ain1, A0 = Aeq1, Q1, q1 are kept as tensors
get_differentiable_value_function ==
    /\ Quiet /\ vf.cls = "ValueFunction"
    /\ prog' = Some(traj_opt_constraint(vf))
    /\ built' = Some(vf)
    /\ closure' = "diff"
    /\ UNCHANGED <<vf, probe, call, ret, ctx, grad, grid, mip, held, evals>>

\* DiffFiniteHorizonValueFunction.forward: ctx.x = x; x0.value = x;
\* prob_mi.solve(...)
forward(x) ==
    /\ Quiet /\ closure = "diff"
    /\ call' = [pc |-> "solve", x |-> x, u |-> None, xs |-> <<>>, al |-> <<>>]
    /\ ret' = None /\ grad' = None
    /\ ctx' = Some([x |-> x, success |-> FALSE, lambda_G |-> None, lambda_A |-> None,
                    dfdp |-> None])
    /\ UNCHANGED <<vf, prog, built, probe, closure, grid, mip, held, evals>>
\* obj_mi.value is None, or obj_con.value is None after the second solve:
\* ctx.success = False and the outputs are NaN
ForwardNaN ==
    /\ call.pc = "solve" /\ closure = "diff"
    /\ ret' = Some(nan_outputs(sys_x_dim, vf.N))
    /\ ctx' = Some([Get(ctx) EXCEPT !.success = FALSE])
    /\ call' = [call EXCEPT !.pc = "idle", !.xs = <<>>, !.al = <<>>]
    /\ UNCHANGED <<vf, prog, built, probe, closure, grad, grid, mip, held, evals>>
\* the objectives of the two solves differ by more than 1e-5: the assert
\* of forward fails
ForwardAssert ==
    /\ call.pc = "solve" /\ closure = "diff"
    /\ Assigned(vf.N, call.xs, call.al)
    /\ Feasible(Get(prog), call.x, call.u, call.xs, call.al)
    /\ ret' = Some(Raises("AssertionError"))
    /\ call' = [call EXCEPT !.pc = "idle"]
    /\ UNCHANGED <<vf, prog, built, probe, closure, ctx, grad, grid, mip, held, evals>>
\* the dual values cvxpy reports for the two constraints of con_con: one
\* value per row
Duals(P) == {<<Zeros(Len(P.rhs_in)), Zeros(Len(P.rhs_eq))>>,
             <<Ones(Len(P.rhs_in)), Ones(Len(P.rhs_eq))>>}
\* both solves end with a point: the trajectory, the cost-to-go and the
\* duals of the second solve
ForwardReturn ==
    /\ call.pc = "solve" /\ closure = "diff"
    /\ Assigned(vf.N, call.xs, call.al)
    /\ Feasible(Get(prog), call.x, call.u, call.xs, call.al)
    /\ LET traj == sol_to_traj(vf, call.x, Some(call.xs), Some(call.al))
           ctg == cost_to_go(step_costs(vf, traj))
       IN ret' = Some(Outputs(<<Nums(x_traj_flat(traj.x_traj)[1])>>,
                              Nums(Slice(ctg, 0, -1))))
    /\ \E dual_value \in Duals(Get(prog)) :
          ctx' = Some([Get(ctx) EXCEPT !.success = TRUE, !.lambda_G = Some(dual_value[1]),
                                       !.lambda_A = Some(dual_value[2])])
    /\ call' = [call EXCEPT !.pc = "idle"]
    /\ UNCHANGED <<vf, prog, built, probe, closure, grad, grid, mip, held, evals>>

AllZero(v) == \A i \in 1..Len(v) : v[i] = 0
Scale(a, v) == [i \in 1..Len(v) |-> a * v[i]]
\* what a call of backward did: its arguments, and the gradient it returned
\* or the exception it raised
\* shape is the shape of grad_input; grad_args is the second element of the
\* returned pair, the gradient for the argument dictionary
Backward(gx, gc, exc, grad_input, shape) ==
    [grad_output_x_traj_flat |-> gx, grad_output_cost_to_go |-> gc,
     exc |-> exc, grad_input |-> grad_input, shape |-> shape, grad_args |-> None]
\* the shape after Tensor.squeeze(): every dimension of size 1 is removed
squeeze(shape) == SelectSeq(shape, LAMBDA d : d # 1)
\* variant: after a failed forward the gradient is zero
backward_zero_on_failure(grad_output_x_traj_flat, grad_output_cost_to_go) ==
    /\ Quiet /\ closure = "diff" /\ ~IsNone(ret) /\ Get(ret).exc = "none"
    /\ grad' = Some(
         IF ~AllZero(grad_output_x_traj_flat[1])
            \/ ~AllZero(Slice(grad_output_cost_to_go, 1, Len(grad_output_cost_to_go)))
         THEN Backward(grad_output_x_traj_flat, grad_output_cost_to_go, "AssertionError", None, None)
         ELSE IF ~Get(ctx).success
         THEN Backward(grad_output_x_traj_flat, grad_output_cost_to_go, "none",
                       Some(Nums(Zeros(Len(Get(ctx).x)))), Some(<<Len(Get(ctx).x)>>))
         ELSE LET P == Get(prog)
                  dy == VecAdd(VecAdd(VecAdd(VecMat(Get(Get(ctx).lambda_A), P.Aeq1),
                                             VecMat(Get(Get(ctx).lambda_G), P.Ain1)),
                                      P.q1),
                               MatVec(P.Q1, Get(ctx).x))
              IN Backward(grad_output_x_traj_flat, grad_output_cost_to_go, "none",
                          Some(Nums(Scale(grad_output_cost_to_go[1], dy))),
                          Some(squeeze(<<1, Len(dy)>>))))
    /\ UNCHANGED <<vf, prog, built, probe, closure, call, ret, ctx, grid, mip, held, evals>>
\* DiffFiniteHorizonValueFunction.backward
backward(grad_output_x_traj_flat, grad_output_cost_to_go) ==
    /\ Quiet /\ closure = "diff" /\ ~IsNone(ret) /\ Get(ret).exc = "none"
    /\ grad' = Some(
         IF ~AllZero(grad_output_x_traj_flat[1])
            \/ ~AllZero(Slice(grad_output_cost_to_go, 1, Len(grad_output_cost_to_go)))
         THEN Backward(grad_output_x_traj_flat, grad_output_cost_to_go, "AssertionError", None, None)
         ELSE IF ~Get(ctx).success
         THEN Backward(grad_output_x_traj_flat, grad_output_cost_to_go, "none",
                       Some(NaNs(Len(Get(ctx).x))), Some(<<Len(Get(ctx).x)>>))
         ELSE LET P == Get(prog)
                  dy == VecAdd(VecAdd(VecAdd(VecMat(Get(Get(ctx).lambda_A), P.Aeq1),
                                             VecMat(Get(Get(ctx).lambda_G), P.Ain1)),
                                      P.q1),
                               MatVec(P.Q1, Get(ctx).x))
              IN Backward(grad_output_x_traj_flat, grad_output_cost_to_go, "none",
                          Some(Nums(Scale(grad_output_cost_to_go[1], dy))),
                          Some(squeeze(<<1, Len(dy)>>))))
    /\ UNCHANGED <<vf, prog, built, probe, closure, call, ret, ctx, grid, mip, held, evals>>

\* NLPValueFunction.sol_to_traj
NLP_sol_to_traj(self, x0, s_val, alpha_val) ==
    IF IsNone(s_val) THEN [x_traj |-> None, u_traj |-> None, alpha_traj |-> None]
    ELSE LET traj_val == Transpose(Reshape(x0 \o Get(s_val), self.N)) IN
         [x_traj |-> SubSeq(traj_val, 1, self.x_dim[1]),
          u_traj |-> SubSeq(traj_val, self.x_dim[1] + 1, self.x_dim[1] + self.u_dim[1]),
          alpha_traj |-> Transpose(Reshape(Get(alpha_val), self.N))]
\* NLPValueFunction.step_cost
NLP_step_cost(self, n, x_val, u_val, alpha_val) ==
    LET mode == self.mode_traj[n + 1]
        dx == IF IsNone(self.x_desired) THEN x_val
              ELSE VecSub(x_val, Get(self.x_desired)[mode + 1])
    IN  (IF IsNone(self.Q) THEN 0 ELSE QuadForm(dx, Get(self.Q)[mode + 1]))
      + (IF IsNone(self.R) THEN 0 ELSE QuadForm(u_val, Get(self.R)[mode + 1]))
      + (IF ~IsNone(self.Qt) /\ n = self.N - 1 THEN QuadForm(dx, Get(self.Qt)) ELSE 0)
NLP_step_costs(self, traj) ==
    [j \in 1..self.N |-> NLP_step_cost(self, j - 1, Col(traj.x_traj, j - 1),
                                       Col(traj.u_traj, j - 1),
                                       Some(Col(traj.alpha_traj, j - 1)))]
\* x_dim of the sys given to the NLPValueFunction
nlp_sys_x_dim == 1

\* NLPValueFunction.get_differentiable_value_function:
\* assert(self.x0_constraint is not None)
NLP_get_differentiable_value_function ==
    /\ Quiet /\ vf.cls = "NLPValueFunction" /\ closure = "none"
    /\ vf.x0_constraint
    /\ closure' = "nlpdiff"
    /\ UNCHANGED <<vf, prog, built, probe, call, ret, ctx, grad, grid, mip, held, evals>>
\* DiffFiniteHorizonNLPValueFunction.forward: ctx.x = x; set_bounds(x, x);
\* result = solver.Solve(...)
NLP_forward(x) ==
    /\ Quiet /\ closure = "nlpdiff"
    /\ call' = [pc |-> "nlpsolve", x |-> x, u |-> None, xs |-> <<>>, al |-> <<>>]
    /\ ret' = None /\ grad' = None
    /\ ctx' = Some([x |-> x, success |-> FALSE, lambda_G |-> None, lambda_A |-> None,
                    dfdp |-> None])
    /\ UNCHANGED <<vf, prog, built, probe, closure, grid, mip, held, evals>>
\* not result.is_success(): ctx.success = False and the outputs are NaN
NLP_ForwardNaN ==
    /\ call.pc = "nlpsolve" /\ closure = "nlpdiff"
    /\ ret' = Some(nan_outputs(nlp_sys_x_dim, vf.N))
    /\ ctx' = Some([Get(ctx) EXCEPT !.success = FALSE])
    /\ call' = [call EXCEPT !.pc = "idle"]
    /\ UNCHANGED <<vf, prog, built, probe, closure, grad, grid, mip, held, evals>>
\* result.is_success() with more nonlinear constraints than pairs of knot
\* points: grads_g reads x_traj[n + 1] past the last knot point and raises
NLP_ForwardRaise ==
    /\ call.pc = "nlpsolve" /\ closure = "nlpdiff"
    /\ Len(vf.nl_constraints) > vf.N - 1
    /\ \E result \in Results(vf, call.x) :
          call' = [call EXCEPT !.pc = "idle", !.xs = result_to_s(result),
                               !.al = Zeros(vf.N)]
    /\ ret' = Some(Raises("IndexError"))
    /\ UNCHANGED <<vf, prog, built, probe, closure, ctx, grad, grid, mip, held, evals>>
\* the sensitivity dfdp = dfdx(result) @ dxdp of the cost to x0, the solution
\* of a linear system in the solver's multipliers: one value per state
Sensitivities(n) == {Zeros(n), Ones(n)}
\* result.is_success(): the trajectory, the cost-to-go and ctx.dfdp
NLP_ForwardReturn ==
    /\ call.pc = "nlpsolve" /\ closure = "nlpdiff"
    /\ Len(vf.nl_constraints) <= vf.N - 1
    /\ \E result \in Results(vf, call.x) :
          LET s_val == result_to_s(result)
              alpha_val == Zeros(vf.N)
              traj == NLP_sol_to_traj(vf, call.x, Some(s_val), Some(alpha_val))
              ctg == cost_to_go(NLP_step_costs(vf, traj))
          IN /\ ret' = Some(Outputs(<<Nums(x_traj_flat(traj.x_traj)[1])>>,
                                    Nums(Slice(ctg, 0, -1))))
             /\ call' = [call EXCEPT !.pc = "idle", !.xs = s_val, !.al = alpha_val]
    /\ \E dfdp \in Sensitivities(vf.x_dim[vf.mode_traj[1] + 1]) :
          ctx' = Some([Get(ctx) EXCEPT !.success = TRUE, !.dfdp = Some(dfdp)])
    /\ UNCHANGED <<vf, prog, built, probe, closure, grad, grid, mip, held, evals>>

\* variant: the success flag is consulted before the asserts
NLP_backward_flag_first(grad_output_x_traj_flat, grad_output_cost_to_go) ==
    /\ Quiet /\ closure = "nlpdiff" /\ ~IsNone(ret) /\ Get(ret).exc = "none"
    /\ grad' = Some(
         IF ~Get(ctx).success
         THEN Backward(grad_output_x_traj_flat, grad_output_cost_to_go, "none",
                       Some(NaNs(Len(Get(ctx).x))), Some(<<Len(Get(ctx).x)>>))
         ELSE IF ~AllZero(grad_output_x_traj_flat[1])
            \/ ~AllZero(Slice(grad_output_cost_to_go, 1, Len(grad_output_cost_to_go)))
         THEN Backward(grad_output_x_traj_flat, grad_output_cost_to_go, "AssertionError", None, None)
         ELSE IF Len(grad_output_cost_to_go) = 0
         THEN Backward(grad_output_x_traj_flat, grad_output_cost_to_go, "IndexError", None, None)
         ELSE Backward(grad_output_x_traj_flat, grad_output_cost_to_go, "none",
                       Some(Nums(Scale(grad_output_cost_to_go[1], Get(Get(ctx).dfdp)))),
                       Some(squeeze(<<1, Len(Get(Get(ctx).dfdp))>>))))
    /\ UNCHANGED <<vf, prog, built, probe, closure, call, ret, ctx, grid, mip, held, evals>>
\* DiffFiniteHorizonNLPValueFunction.backward
NLP_backward(grad_output_x_traj_flat, grad_output_cost_to_go) ==
    /\ Quiet /\ closure = "nlpdiff" /\ ~IsNone(ret) /\ Get(ret).exc = "none"
    /\ grad' = Some(
         IF ~AllZero(grad_output_x_traj_flat[1])
            \/ ~AllZero(Slice(grad_output_cost_to_go, 1, Len(grad_output_cost_to_go)))
         THEN Backward(grad_output_x_traj_flat, grad_output_cost_to_go, "AssertionError", None, None)
         ELSE IF ~Get(ctx).success
         THEN Backward(grad_output_x_traj_flat, grad_output_cost_to_go, "none",
                       Some(NaNs(Len(Get(ctx).x))), Some(<<Len(Get(ctx).x)>>))
         ELSE IF Len(grad_output_cost_to_go) = 0
         THEN Backward(grad_output_x_traj_flat, grad_output_cost_to_go, "IndexError", None, None)
         ELSE Backward(grad_output_x_traj_flat, grad_output_cost_to_go, "none",
                       Some(Nums(Scale(grad_output_cost_to_go[1], Get(Get(ctx).dfdp)))),
                       Some(squeeze(<<1, Len(Get(Get(ctx).dfdp))>>))))
    /\ UNCHANGED <<vf, prog, built, probe, closure, call, ret, ctx, grid, mip, held, evals>>

\* upstream gradients with the shapes of the two outputs: zero, or with one
\* non-zero entry (the first or the last)
GradsOfFlat(n) == {<<Zeros(n)>>} \cup {<<[i \in 1..n |-> IF i = k THEN 1 ELSE 0]>> : k \in {n} \ {0}}
GradsOfCostToGo(n) ==
    {Zeros(n)} \cup {[i \in 1..n |-> IF i = k THEN 1 ELSE 0] : k \in {1, n} \ {0, n + 1}}

\* initial states of the calls of forward: inside the bounds, and outside
DiffPoints == {x \in Points : x[1] >= x_lo[1] /\ x[1] <= x_up[1] /\ x[2] >= x_lo[2]}

\* the cost is set, the layer is obtained, and forward and backward are
\* called any number of times
NextDiff ==
    \/ /\ closure = "none" /\ vf.cls = "ValueFunction"
       /\ \E Qa \in Opt(Q_in) : set_cost(Qa, None, None, None, Some(r_in), None)
    \/ /\ closure = "none" /\ vf.cls = "ValueFunction"
       /\ \E Qta \in Opt(Qt_in) : set_terminal_cost(Qta, None, None, None, None, None)
    \/ /\ closure = "none" /\ vf.cls = "ValueFunction"
       /\ \E xtraj \in Opt(xtraj_in(vf.N)) : set_traj(xtraj, None, None)
    \/ (closure = "none" /\ get_differentiable_value_function)
    \/ \E x \in DiffPoints : forward(x)
    \/ SolveStep
    \/ ForwardNaN
    \/ ForwardAssert
    \/ ForwardReturn
    \/ /\ Quiet /\ closure = "diff" /\ ~IsNone(ret) /\ IsNone(grad)
       /\ \E gx \in GradsOfFlat(sys_x_dim * (vf.N - 1)), gc \in GradsOfCostToGo(vf.N - 1) :
             backward(gx, gc)
    \/ \E n \in 1..(MaxN - 1), guard \in BOOLEAN, guard_jax \in BOOLEAN :
          vf.N + n <= MaxN /\ add_mode(n, guard, guard_jax)
    \/ \E m \in {0, 1} : vf.N + 1 <= MaxN /\ add_transition(m)
    \/ add_init_state_constraint
    \/ add_terminal_state_cost(NLP_Qt_in)
    \/ NLP_get_differentiable_value_function
    \/ \E x \in NLPPoints : NLP_forward(x)
    \/ NLP_ForwardNaN
    \/ NLP_ForwardRaise
    \/ NLP_ForwardReturn
    \/ /\ Quiet /\ closure = "nlpdiff" /\ ~IsNone(ret) /\ IsNone(grad)
       /\ \E gx \in GradsOfFlat(nlp_sys_x_dim * (vf.N - 1)), gc \in GradsOfCostToGo(vf.N - 1) :
             NLP_backward(gx, gc)

SpecDiff == Init /\ [][NextDiff]_vars

\* ------------------------------------------------- claims on the layers
\* C5: in both layers, when the forward solve ends without a point, forward
\* raises nothing and returns a (1, x_dim*(N-1)) state trajectory and an
\* N-1 cost-to-go that are all NaN, the shapes of a success; backward of
\* that call, given an upstream gradient that is zero but at the first
\* cost-to-go entry, returns a gradient of the shape of x0 that is all NaN.
C5_NaNOnFailure ==
    LET x_dim == IF closure = "diff" THEN sys_x_dim ELSE nlp_sys_x_dim
        returned == closure \in {"diff", "nlpdiff"} /\ call.pc = "idle" /\ ~IsNone(ret)
    IN /\ (returned /\ call.xs = <<>>) =>
             /\ Get(ret).exc = "none"
             /\ \A i \in 1..Len(Get(ret).x_traj_flat[1]) : Get(ret).x_traj_flat[1][i] = NaN
             /\ \A i \in 1..Len(Get(ret).cost_to_go) : Get(ret).cost_to_go[i] = NaN
       /\ (returned /\ Get(ret).exc = "none") =>
             /\ Len(Get(ret).x_traj_flat) = 1
             /\ Len(Get(ret).x_traj_flat[1]) = x_dim * (vf.N - 1)
             /\ Len(Get(ret).cost_to_go) = vf.N - 1
       /\ (returned /\ call.xs = <<>> /\ ~IsNone(grad)
           /\ (\A i \in 1..Len(Get(grad).grad_output_x_traj_flat[1]) :
                  Get(grad).grad_output_x_traj_flat[1][i] = 0)
           /\ (\A i \in 2..Len(Get(grad).grad_output_cost_to_go) :
                  Get(grad).grad_output_cost_to_go[i] = 0)) =>
             /\ Get(grad).exc = "none"
             /\ ~IsNone(Get(grad).grad_input)
             /\ Len(Get(Get(grad).grad_input)) = Len(call.x)
             /\ \A i \in 1..Len(call.x) : Get(Get(grad).grad_input)[i] = NaN
C5_Witness ==
    /\ closure = "diff" /\ call.pc = "idle" /\ ~IsNone(ret) /\ call.xs = <<>>
    /\ vf.N = MaxN /\ call.x = <<0, 2>>
    /\ ~IsNone(grad) /\ Get(grad).grad_output_cost_to_go = <<1, 0>>
    /\ Get(grad).grad_input = Some(<<NaN, NaN>>)

\* C6: in both layers backward fails with an assertion whenever the
\* upstream gradient of the state trajectory has a non-zero entry or that of
\* the cost-to-go has a non-zero entry at an index >= 1, also after a
\* forward that ended without a point.
C6_BackwardAsserts ==
    (closure \in {"diff", "nlpdiff"} /\ ~IsNone(grad)) =>
        ((\/ \E i \in 1..Len(Get(grad).grad_output_x_traj_flat[1]) :
                Get(grad).grad_output_x_traj_flat[1][i] # 0
          \/ \E i \in 2..Len(Get(grad).grad_output_cost_to_go) :
                Get(grad).grad_output_cost_to_go[i] # 0)
         => Get(grad).exc = "AssertionError")
C6_Witness ==
    /\ closure = "nlpdiff" /\ ~IsNone(grad) /\ ~Get(ctx).success
    /\ Get(grad).grad_output_cost_to_go = <<0, 1>>
    /\ Get(grad).exc = "AssertionError"

\* C7: on a successful forward the cost-to-go v has length N-1 and
\* v[n] is the sum of step_cost(k) for k = n..N-1 on the trajectory that
\* sol_to_traj recovers, so v[n] - v[n+1] = step_cost(n), and v[0] is the
\* cost of the whole trajectory.
C7_CostToGoSuffixSums ==
    (closure \in {"diff", "nlpdiff"} /\ call.pc = "idle" /\ ~IsNone(ret)
     /\ Get(ret).exc = "none" /\ call.xs # <<>>) =>
        LET v == Get(ret).cost_to_go
            traj == IF closure = "diff"
                    THEN sol_to_traj(vf, call.x, Some(call.xs), Some(call.al))
                    ELSE NLP_sol_to_traj(vf, call.x, Some(call.xs), Some(call.al))
            cost(k) == IF closure = "diff"
                       THEN step_cost(vf, k, Col(traj.x_traj, k), Col(traj.u_traj, k),
                                      Some(Col(traj.alpha_traj, k)))
                       ELSE NLP_step_cost(vf, k, Col(traj.x_traj, k), Col(traj.u_traj, k),
                                          Some(Col(traj.alpha_traj, k)))
            RECURSIVE suffix(_)
            suffix(n) == IF n > vf.N - 1 THEN 0 ELSE cost(n) + suffix(n + 1)
        IN /\ Len(v) = vf.N - 1
           /\ \A n \in 0..(vf.N - 2) : v[n + 1] = Some(suffix(n))
           /\ \A n \in 0..(vf.N - 3) : Get(v[n + 1]) - Get(v[n + 2]) = cost(n)
           /\ closure = "diff" => v[1] = Some(traj_cost(vf, traj))
C7_Witness ==
    /\ closure = "diff" /\ call.pc = "idle" /\ ~IsNone(ret)
    /\ Get(ret).exc = "none" /\ call.xs # <<>>
    /\ vf.N = MaxN /\ ~IsNone(vf.Q) /\ ~IsNone(vf.Qt)
    /\ Get(ret).cost_to_go[1] # Get(ret).cost_to_go[2]
    /\ Get(ret).cost_to_go[2] # Some(0)

\* ------------------------------------ claims on the boundary equalities
\* C11: when x0 (xN) is set, the equality block has, after the dynamics and
\* mode rows, one row per non-NaN coordinate of x0 and then one per non-NaN
\* coordinate of xN, in coordinate order, and none for a NaN coordinate; the
\* row of coordinate i of x0 is the unit row e_i on the initial-state block
\* with right-hand side x0[i], the row of coordinate i of xN is the unit row
\* on coordinate i of the last state slice of s with right-hand side xN[i];
\* a point returned by a solve has those coordinates at the set values.
C11_BoundaryEqualityRows ==
    /\ (~IsNone(prog) /\ call.pc = "idle" /\ IsNone(ret)) =>
          LET P == Get(prog)
              self == Get(built)
              N == self.N
              per == sys_x_dim + sys_u_dim + Cols(mixed_integer_constraints.Ain_slack)
              s_dim == per * N - sys_x_dim
              cnt(o) == IF IsNone(o) THEN 0
                        ELSE Cardinality({i \in 1..sys_x_dim : Get(o)[i] # NaN})
              rank(o, i) == Cardinality({j \in 1..i : Get(o)[j] # NaN})
              base == (N - 1) * sys_x_dim + N
              unit(n, k) == [j \in 1..n |-> IF j = k THEN 1 ELSE 0]
          IN /\ Len(P.rhs_eq) = base + cnt(self.x0) + cnt(self.xN)
                                  + (N - 1) * Len(self.constant_controls)
             /\ IF IsNone(self.x0) THEN TRUE
                ELSE \A i \in 1..sys_x_dim :
                        Get(self.x0)[i] # NaN =>
                          LET r == base + rank(self.x0, i) IN
                          /\ P.Aeq1[r] = unit(sys_x_dim, i)
                          /\ P.Aeq2[r] = Zeros(s_dim)
                          /\ P.Aeq3[r] = Zeros(Len(P.Aeq3[r]))
                          /\ P.rhs_eq[r] = Get(self.x0)[i][1]
             /\ IF IsNone(self.xN) THEN TRUE
                ELSE \A i \in 1..sys_x_dim :
                        Get(self.xN)[i] # NaN =>
                          LET r == base + cnt(self.x0) + rank(self.xN, i) IN
                          /\ P.Aeq1[r] = Zeros(sys_x_dim)
                          /\ P.Aeq2[r] = unit(s_dim, s_dim - per + i)
                          /\ P.Aeq3[r] = Zeros(Len(P.Aeq3[r]))
                          /\ P.rhs_eq[r] = Get(self.xN)[i][1]
    /\ (closure \in {"V", "Q"} /\ call.pc = "idle" /\ ~IsNone(ret) /\ ~IsNone(ret[2])) =>
          LET s == Get(ret[2])
              per == sys_x_dim + sys_u_dim + Cols(mixed_integer_constraints.Ain_slack)
          IN /\ IF IsNone(vf.x0) THEN TRUE
                ELSE \A i \in 1..sys_x_dim :
                        Get(vf.x0)[i] # NaN => call.x[i] = Get(vf.x0)[i][1]
             /\ IF IsNone(vf.xN) THEN TRUE
                ELSE \A i \in 1..sys_x_dim :
                        Get(vf.xN)[i] # NaN => s[Len(s) - per + i] = Get(vf.xN)[i][1]
C11_Witness ==
    /\ closure = "V" /\ call.pc = "idle" /\ ~IsNone(ret) /\ ~IsNone(ret[2])
    /\ vf.N = MaxN
    /\ vf.x0 = Some(<<Some(0), NaN>>)
    /\ vf.xN = Some(<<NaN, Some(1)>>)
    /\ call.x = <<0, 1>>

\* C12: Q(x, u) solves the program of V(x), the tuple of traj_opt_constraint
\* on the current fields, with the one additional equality s[:u_dim] == u0:
\* the s of every successful result satisfies the constraints of the tuple
\* and starts with u, and the recovered u_traj[:, 0] is u.
C12_QPinsFirstInput ==
    /\ (closure = "Q" /\ call.pc = "idle" /\ ~IsNone(ret) /\ ~IsNone(ret[1])) =>
          /\ Get(prog) = traj_opt_constraint(vf)
          /\ SatIn(Get(prog), call.x, Get(ret[2]), Get(ret[3]))
          /\ SatEq(Get(prog), call.x, Get(ret[2]), Get(ret[3]))
          /\ ~IsNone(call.u)
          /\ Slice(Get(ret[2]), 0, sys_u_dim) = Get(call.u)
    /\ (closure = "Q" /\ ~IsNone(probe) /\ ~IsNone(Get(probe).s)) =>
          Col(Get(probe).traj.u_traj, 0) = Get(call.u)
C12_Witness ==
    /\ closure = "Q" /\ ~IsNone(probe) /\ ~IsNone(Get(probe).s)
    /\ vf.N = MaxN
    /\ call.u = Some(<<0 - 1>>)
    /\ Get(Get(probe).s)[1] = 0 - 1

linspace(lo, up, n) ==
    [k \in 1..n |-> IF n = 1 THEN lo ELSE lo + ((k - 1) * (up - lo)) \div (n - 1)]
dim_samples(lo, up, num_breaks) ==
    [i \in 1..Len(lo) |-> linspace(lo[i], up[i], num_breaks[i])]
\* torch.cat([g.reshape(-1, 1) for g in torch.meshgrid(dim_samples)], axis=1):
\* one row per grid point, the last coordinate changing fastest
RECURSIVE x_samples_all(_)
x_samples_all(ds) ==
    IF Len(ds) = 0 THEN << <<>> >>
    ELSE LET rest == x_samples_all(Tail(ds))
             first == Head(ds)
             n == Len(rest)
         IN [r \in 1..(Len(first) * n) |->
                <<first[((r - 1) \div n) + 1]>> \o rest[((r - 1) % n) + 1]]

\* the locals of a running call: the grid, the loop indices i, j, k, the
\* trajectory of the current grid point, the sample tensors, and (log) the
\* evaluations made so far, in order
sampling(method, all, lo, up, num_breaks, num_noisy_samples) ==
    [method |-> method, all |-> all, lo |-> lo, up |-> up, num_breaks |-> num_breaks,
     num_noisy_samples |-> num_noisy_samples,
     pc |-> "grid", waiting |-> FALSE, i |-> 0, j |-> 0, k |-> 0,
     xtraj_val |-> <<>>,
     x_samples |-> <<>>, u_samples |-> <<>>, v_samples |-> <<>>,
     exc |-> "none", log |-> <<>>]
\* x_samples = torch.cat((x_samples, x.unsqueeze(0))), and u_samples, v_samples
append_sample(g, x, u, v) ==
    [g EXCEPT !.x_samples = Append(@, x),
              !.u_samples = IF g.method = "q" THEN Append(@, u) ELSE @,
              !.v_samples = Append(@, <<v>>)]
logged(g, kind, x, u, v) ==
    [g EXCEPT !.waiting = FALSE,
              !.log = Append(@, [kind |-> kind, i |-> g.i, j |-> g.j, k |-> g.k,
                                 x |-> x, u |-> u, v |-> v])]
\* the next iteration of "for i in range(x_samples_all.shape[0])"
next_point(g) == [g EXCEPT !.i = @ + 1, !.pc = "grid", !.j = 0, !.k = 0, !.xtraj_val = <<>>]
\* the next iteration of "for j in range(1, self.N)"
next_traj_state(g, N) ==
    IF g.j + 1 < N THEN [g EXCEPT !.j = @ + 1, !.pc = "traj", !.k = 0] ELSE next_point(g)

get_value_sample_grid(lo, up, num_breaks) ==
    /\ Quiet /\ vf.cls = "ValueFunction" /\ closure = "none" /\ IsNone(grid)
    /\ Len(lo) = Len(up) /\ Len(lo) = Len(num_breaks)
    /\ prog' = Some(traj_opt_constraint(vf))
    /\ built' = Some(vf)
    /\ closure' = "V"
    /\ grid' = Some(sampling("value", x_samples_all(dim_samples(lo, up, num_breaks)),
                             lo, up, num_breaks, 0))
    /\ UNCHANGED <<vf, probe, call, ret, ctx, grad, mip, held, evals>>
get_rolled_out_sample_grid(lo, up, num_breaks, num_noisy_samples) ==
    /\ Quiet /\ vf.cls = "ValueFunction" /\ closure = "none" /\ IsNone(grid)
    /\ Len(lo) = Len(up) /\ Len(lo) = Len(num_breaks)
    /\ prog' = Some(traj_opt_constraint(vf))
    /\ built' = Some(vf)
    /\ closure' = "V"
    /\ grid' = Some(sampling("rolled", x_samples_all(dim_samples(lo, up, num_breaks)),
                             lo, up, num_breaks, num_noisy_samples))
    /\ UNCHANGED <<vf, probe, call, ret, ctx, grad, mip, held, evals>>
get_q_sample_grid(lo, up, x_num_breaks, ulo, uup, u_num_breaks) ==
    /\ Quiet /\ vf.cls = "ValueFunction" /\ closure = "none" /\ IsNone(grid)
    /\ Len(lo) = Len(up) /\ Len(lo) = Len(x_num_breaks)
    /\ Len(ulo) = Len(uup) /\ Len(ulo) = Len(u_num_breaks)
    /\ prog' = Some(traj_opt_constraint(vf))
    /\ built' = Some(vf)
    /\ closure' = "Q"
    /\ grid' = Some(sampling("q",
                             x_samples_all(dim_samples(lo, up, x_num_breaks)
                                           \o dim_samples(ulo, uup, u_num_breaks)),
                             lo \o ulo, up \o uup, x_num_breaks \o u_num_breaks, 0))
    /\ UNCHANGED <<vf, probe, call, ret, ctx, grad, mip, held, evals>>

\* x = x_samples_all[i, :]; V(x), respectively Q(x, u) on the two parts of the row
GridEvaluate ==
    /\ ~IsNone(grid) /\ call.pc = "idle"
    /\ Get(grid).pc = "grid" /\ ~Get(grid).waiting
    /\ Get(grid).i < Len(Get(grid).all)
    /\ LET row == Get(grid).all[Get(grid).i + 1] IN
       call' = IF Get(grid).method = "q"
               THEN [pc |-> "solve", x |-> Slice(row, 0, sys_x_dim),
                     u |-> Some(Slice(row, sys_x_dim, Len(row))), xs |-> <<>>, al |-> <<>>]
               ELSE [pc |-> "solve", x |-> row, u |-> None, xs |-> <<>>, al |-> <<>>]
    /\ ret' = None
    /\ grid' = Some([Get(grid) EXCEPT !.waiting = TRUE])
    /\ UNCHANGED <<vf, prog, built, probe, closure, ctx, grad, mip, held, evals>>

\* get_value_sample_grid and get_q_sample_grid: if v[0] is not None, append
\* variant: a row is appended for every grid point
GridAppend_unconditional ==
    /\ ~IsNone(grid) /\ call.pc = "idle" /\ ~IsNone(ret)
    /\ Get(grid).pc = "grid" /\ Get(grid).waiting
    /\ Get(grid).method \in {"value", "q"}
    /\ LET u == IF IsNone(call.u) THEN <<>> ELSE Get(call.u)
           g == logged(Get(grid), "grid", call.x, u, ret[1])
       IN grid' = Some(next_point(append_sample(g, call.x, u,
                                                IF IsNone(ret[1]) THEN 0 ELSE Get(ret[1]))))
    /\ call' = Idle /\ ret' = None
    /\ UNCHANGED <<vf, prog, built, probe, closure, ctx, grad, mip, held, evals>>
GridAppend ==
    /\ ~IsNone(grid) /\ call.pc = "idle" /\ ~IsNone(ret)
    /\ Get(grid).pc = "grid" /\ Get(grid).waiting
    /\ Get(grid).method \in {"value", "q"}
    /\ LET u == IF IsNone(call.u) THEN <<>> ELSE Get(call.u)
           g == logged(Get(grid), "grid", call.x, u, ret[1])
       IN grid' = Some(next_point(IF ~IsNone(ret[1])
                                  THEN append_sample(g, call.x, u, Get(ret[1]))
                                  ELSE g))
    /\ call' = Idle /\ ret' = None
    /\ UNCHANGED <<vf, prog, built, probe, closure, ctx, grad, mip, held, evals>>

\* get_rolled_out_sample_grid, the grid point: torch.cat((x, s_val)) raises
\* TypeError when s_val is None; otherwise the sample is appended and the
\* roll-out starts at j = 1
RolledGridResult ==
    /\ ~IsNone(grid) /\ call.pc = "idle" /\ ~IsNone(ret)
    /\ Get(grid).pc = "grid" /\ Get(grid).waiting
    /\ Get(grid).method = "rolled"
    /\ LET g == logged(Get(grid), "grid", call.x, <<>>, ret[1]) IN
       IF IsNone(ret[2])
       THEN grid' = Some([g EXCEPT !.pc = "raised", !.exc = "TypeError"])
       ELSE LET traj_val == Transpose(Reshape(call.x \o Get(ret[2]), vf.N))
                xtraj_val == SubSeq(traj_val, 1, sys_x_dim)
                g1 == [g EXCEPT !.xtraj_val = xtraj_val]
            IN IF ~IsNone(ret[1])
               THEN grid' = Some(next_traj_state(append_sample(g1, call.x, <<>>, Get(ret[1])),
                                                 vf.N))
               ELSE grid' = Some(next_point(g1))
    /\ call' = Idle /\ ret' = None
    /\ UNCHANGED <<vf, prog, built, probe, closure, ctx, grad, mip, held, evals>>
\* x = xtraj_val[:, j]; V(x)
RolledEvaluateTraj ==
    /\ ~IsNone(grid) /\ call.pc = "idle"
    /\ Get(grid).pc = "traj" /\ ~Get(grid).waiting
    /\ call' = [pc |-> "solve", x |-> Col(Get(grid).xtraj_val, Get(grid).j), u |-> None,
                xs |-> <<>>, al |-> <<>>]
    /\ ret' = None
    /\ grid' = Some([Get(grid) EXCEPT !.waiting = TRUE])
    /\ UNCHANGED <<vf, prog, built, probe, closure, ctx, grad, mip, held, evals>>
\* variant: an infeasible trajectory state is skipped and the roll-out goes on
RolledTrajResult_no_break ==
    /\ ~IsNone(grid) /\ call.pc = "idle" /\ ~IsNone(ret)
    /\ Get(grid).pc = "traj" /\ Get(grid).waiting
    /\ LET g == logged(Get(grid), "traj", call.x, <<>>, ret[1])
           g1 == IF IsNone(ret[1]) THEN g ELSE append_sample(g, call.x, <<>>, Get(ret[1]))
       IN IF g1.num_noisy_samples > 0
          THEN grid' = Some([g1 EXCEPT !.pc = "noisy", !.k = 0])
          ELSE grid' = Some(next_traj_state(g1, vf.N))
    /\ call' = Idle /\ ret' = None
    /\ UNCHANGED <<vf, prog, built, probe, closure, ctx, grad, mip, held, evals>>
\* the trajectory state: appended if feasible, else break
RolledTrajResult ==
    /\ ~IsNone(grid) /\ call.pc = "idle" /\ ~IsNone(ret)
    /\ Get(grid).pc = "traj" /\ Get(grid).waiting
    /\ LET g == logged(Get(grid), "traj", call.x, <<>>, ret[1]) IN
       IF IsNone(ret[1])
       THEN grid' = Some(next_point(g))
       ELSE LET g1 == append_sample(g, call.x, <<>>, Get(ret[1])) IN
            IF g1.num_noisy_samples > 0
            THEN grid' = Some([g1 EXCEPT !.pc = "noisy", !.k = 0])
            ELSE grid' = Some(next_traj_state(g1, vf.N))
    /\ call' = Idle /\ ret' = None
    /\ UNCHANGED <<vf, prog, built, probe, closure, ctx, grad, mip, held, evals>>
\* x = xtraj_val[:, j] + (x_up - x_lo) * noisy_samples_var * torch.randn(x_dim):
\* noisy_samples_var is 1 and each entry of randn any value of NoiseVals
NoiseVals == {0, 1}
RolledEvaluateNoisy ==
    /\ ~IsNone(grid) /\ call.pc = "idle"
    /\ Get(grid).pc = "noisy" /\ ~Get(grid).waiting
    /\ \E randn \in [1..sys_x_dim -> NoiseVals] :
          call' = [pc |-> "solve",
                   x |-> [d \in 1..sys_x_dim |->
                             Col(Get(grid).xtraj_val, Get(grid).j)[d]
                             + (Get(grid).up[d] - Get(grid).lo[d]) * randn[d]],
                   u |-> None, xs |-> <<>>, al |-> <<>>]
    /\ ret' = None
    /\ grid' = Some([Get(grid) EXCEPT !.waiting = TRUE])
    /\ UNCHANGED <<vf, prog, built, probe, closure, ctx, grad, mip, held, evals>>
\* the noisy neighbour: appended if feasible, skipped otherwise
RolledNoisyResult ==
    /\ ~IsNone(grid) /\ call.pc = "idle" /\ ~IsNone(ret)
    /\ Get(grid).pc = "noisy" /\ Get(grid).waiting
    /\ LET g == logged(Get(grid), "noisy", call.x, <<>>, ret[1])
           g1 == IF IsNone(ret[1]) THEN g ELSE append_sample(g, call.x, <<>>, Get(ret[1]))
       IN IF g1.k + 1 < g1.num_noisy_samples
          THEN grid' = Some([g1 EXCEPT !.k = @ + 1])
          ELSE grid' = Some(next_traj_state(g1, vf.N))
    /\ call' = Idle /\ ret' = None
    /\ UNCHANGED <<vf, prog, built, probe, closure, ctx, grad, mip, held, evals>>
\* return(x_samples, v_samples), with u_samples for the Q variant
GridReturn ==
    /\ ~IsNone(grid) /\ call.pc = "idle"
    /\ Get(grid).pc = "grid" /\ ~Get(grid).waiting
    /\ Get(grid).i = Len(Get(grid).all)
    /\ grid' = Some([Get(grid) EXCEPT !.pc = "done"])
    /\ UNCHANGED <<vf, prog, built, probe, closure, call, ret, ctx, grad, mip, held, evals>>

\* arguments of the sample-grid methods
MaxBreaks == 2
MaxNoisySamples == 1
\* the most evaluations a roll-out can make: grid points * (1 + (N-1) * (1 + noisy))
MaxRolledEvaluations == 5
GridBoxes == {<< <<0, 0>>, <<2, 1>> >>, << <<0, 0 - 1>>, <<2, 1>> >>}
GridBreaks == [1..sys_x_dim -> 1..MaxBreaks]
InputBoxes == {<< <<0 - 1>>, <<1>> >>}
InputBreaks == [1..sys_u_dim -> 1..MaxBreaks]
\* the roll-out and the Q variant are run on the grids of one line
RolledBreaks == {n \in GridBreaks : n[1] = 1}

\* the cost is set or not (the roll-out is run without a cost), one of the
\* three methods is called and runs to its return or to the exception it
\* raises
NextGrid ==
    \/ /\ closure = "none" /\ IsNone(vf.Q)
       /\ set_cost(Some(Q_in), None, None, None, None, None)
    \/ \E b \in GridBoxes, n \in GridBreaks : get_value_sample_grid(b[1], b[2], n)
    \/ \E b \in GridBoxes, n \in RolledBreaks, m \in 0..MaxNoisySamples :
          /\ IsNone(vf.Q)
          /\ n[1] * n[2] * (1 + (vf.N - 1) * (1 + m)) <= MaxRolledEvaluations
          /\ get_rolled_out_sample_grid(b[1], b[2], n, m)
    \/ \E b \in GridBoxes, n \in RolledBreaks, ub \in InputBoxes, un \in InputBreaks :
          get_q_sample_grid(b[1], b[2], n, ub[1], ub[2], un)
    \/ GridEvaluate
    \/ SolveStep
    \/ ReturnValue
    \/ ReturnNone
    \/ GridAppend
    \/ RolledGridResult
    \/ RolledEvaluateTraj
    \/ RolledTrajResult
    \/ RolledEvaluateNoisy
    \/ RolledNoisyResult
    \/ GridReturn
InitGrid == Init /\ vf.cls = "ValueFunction"
SpecGrid == InitGrid /\ [][NextGrid]_vars

\* ------------------------------------------------ claims on the sample grids
\* the product of the break counts, and coordinate d of grid point r
\* (0-based), the last coordinate changing fastest
RECURSIVE ProductOf(_)
ProductOf(n) == IF Len(n) = 0 THEN 1 ELSE Head(n) * ProductOf(Tail(n))
FactorialPoint(lo, up, n, r) ==
    [d \in 1..Len(n) |->
        linspace(lo[d], up[d], n[d])[((r \div ProductOf(SubSeq(n, d + 1, Len(n)))) % n[d]) + 1]]
FeasibleEntry(e) == ~IsNone(e.v)
FeasibleEvaluations(g) == SelectSeq(g.log, FeasibleEntry)

\* C14: get_value_sample_grid and get_q_sample_grid visit every point of the
\* full factorial grid in order and append a sample exactly for the feasible
\* evaluations: the sample tensors have the same number of rows, at most the
\* product of the break counts, row k of v_samples is the cost returned at
\* row k of x_samples (and u_samples), and an infeasible point is in no row.
C14_GridSamplesAreTheFeasiblePoints ==
    (~IsNone(grid) /\ Get(grid).method \in {"value", "q"}) =>
       LET g == Get(grid)
           total == ProductOf(g.num_breaks)
           feas == FeasibleEvaluations(g)
       IN /\ g.exc = "none"
          /\ Len(g.all) = total
          /\ \A r \in 1..total : g.all[r] = FactorialPoint(g.lo, g.up, g.num_breaks, r - 1)
          /\ Len(g.log) = g.i
          /\ (g.pc = "done") => (Len(g.log) = total)
          /\ \A k \in 1..Len(g.log) : (g.log[k].x \o g.log[k].u = g.all[k])
          /\ Len(g.x_samples) = Len(g.v_samples)
          /\ (g.method = "q") => (Len(g.u_samples) = Len(g.x_samples))
          /\ Len(g.x_samples) <= total
          /\ g.x_samples = [k \in 1..Len(feas) |-> feas[k].x]
          /\ g.v_samples = [k \in 1..Len(feas) |-> <<Get(feas[k].v)>>]
          /\ (g.method = "q") => (g.u_samples = [k \in 1..Len(feas) |-> feas[k].u])
\* a returned Q grid of four points, two of them infeasible, with a cost that
\* is not zero
C14_Witness ==
    /\ ~IsNone(grid) /\ Get(grid).method = "q" /\ Get(grid).pc = "done"
    /\ Len(Get(grid).all) = 4 /\ Len(Get(grid).x_samples) = 2
    /\ Get(grid).x_samples[1] = <<0, 0>>
    /\ Get(grid).v_samples[2] # <<0>>
    /\ \E k \in 1..4 : IsNone(Get(grid).log[k].v)

\* C15: get_rolled_out_sample_grid raises no exception when the evaluation at
\* a grid point returns (None, None, None): the point contributes no sample
\* and the loop goes on with the next grid point.
C15_InfeasibleGridPointIsSkipped ==
    (~IsNone(grid) /\ Get(grid).method = "rolled") =>
       /\ Get(grid).exc = "none"
       /\ \A k \in 1..Len(Get(grid).log) :
             (Get(grid).log[k].kind = "grid" /\ IsNone(Get(grid).log[k].v)) =>
                (Get(grid).pc # "raised" /\ Get(grid).i > Get(grid).log[k].i)
\* the roll-out has raised TypeError at its first grid point, outside the
\* state box
C15_Witness ==
    /\ ~IsNone(grid) /\ Get(grid).method = "rolled"
    /\ Get(grid).pc = "raised" /\ Get(grid).exc = "TypeError"
    /\ Get(grid).log[1].x = <<0, 0 - 1>> /\ IsNone(Get(grid).log[1].v)
    /\ Get(grid).x_samples = <<>>

\* C16: for a feasible grid point the roll-out evaluates x_traj[:, j] in the
\* order j = 1..N-1 and stops along the trajectory at the first infeasible
\* j: the next evaluation is the next grid point, so no later state and no
\* noisy neighbour of step j or later is evaluated or sampled; an infeasible
\* noisy neighbour is skipped and the roll-out goes on.
C16_RollOutStopsAtFirstInfeasible ==
    (~IsNone(grid) /\ Get(grid).method = "rolled") =>
       LET g == Get(grid)
           log == g.log
           feas == FeasibleEvaluations(g)
           Is(k, kind, i, j, kk) ==
               /\ k \in 1..Len(log)
               /\ log[k].kind = kind /\ log[k].i = i /\ log[k].j = j /\ log[k].k = kk
           \* what follows the evaluations of step j of grid point i
           AfterStep(k, i, j) ==
               IF j + 1 < vf.N THEN Is(k, "traj", i, j + 1, 0) ELSE Is(k, "grid", i + 1, 0, 0)
       IN /\ g.x_samples = [k \in 1..Len(feas) |-> feas[k].x]
          /\ g.v_samples = [k \in 1..Len(feas) |-> <<Get(feas[k].v)>>]
          /\ \A k \in 1..Len(log) :
                LET e == log[k] IN
                /\ (e.kind = "grid" /\ FeasibleEntry(e) /\ k < Len(log)) =>
                      Is(k + 1, "traj", e.i, 1, 0)
                /\ (e.kind = "traj") =>
                      /\ e.j \in 1..(vf.N - 1)
                      /\ (e.i = g.i /\ g.xtraj_val # <<>>) => (e.x = Col(g.xtraj_val, e.j))
                      /\ IF e.j = 1
                         THEN Is(k - 1, "grid", e.i, 0, 0) /\ FeasibleEntry(log[k - 1])
                         ELSE \E p \in 1..(k - 1) :
                                 /\ Is(p, "traj", e.i, e.j - 1, 0) /\ FeasibleEntry(log[p])
                                 /\ \A q \in (p + 1)..(k - 1) : log[q].kind = "noisy"
                      /\ (~FeasibleEntry(e)) =>
                            IF k = Len(log)
                            THEN g.i = e.i + 1 /\ g.pc \in {"grid", "done"}
                            ELSE Is(k + 1, "grid", e.i + 1, 0, 0)
                      /\ (FeasibleEntry(e) /\ k < Len(log)) =>
                            IF g.num_noisy_samples > 0
                            THEN Is(k + 1, "noisy", e.i, e.j, 0)
                            ELSE AfterStep(k + 1, e.i, e.j)
                /\ (e.kind = "noisy") =>
                      /\ Is(k - 1 - e.k, "traj", e.i, e.j, 0) /\ FeasibleEntry(log[k - 1 - e.k])
                      /\ (k < Len(log)) =>
                            IF e.k + 1 < g.num_noisy_samples
                            THEN Is(k + 1, "noisy", e.i, e.j, e.k + 1)
                            ELSE AfterStep(k + 1, e.i, e.j)
\* a returned roll-out over three steps with noisy samples whose state j = 1
\* was infeasible: the grid point is the only sample
C16_Witness ==
    /\ ~IsNone(grid) /\ Get(grid).method = "rolled" /\ Get(grid).pc = "done"
    /\ vf.N = 3 /\ Get(grid).num_noisy_samples = 1
    /\ Len(Get(grid).log) = 2
    /\ Get(grid).log[2].kind = "traj" /\ IsNone(Get(grid).log[2].v)
    /\ Len(Get(grid).x_samples) = 1

\* ------------------------------------------------ mip_utils: bound propagation
LessEq(a, c) == IF a.inf # c.inf THEN a.inf < c.inf ELSE IF a.inf = 0 THEN a.val <= c.val ELSE TRUE
ExtMin(S) == CHOOSE a \in S : \A c \in S : LessEq(a, c)
ExtMax(S) == CHOOSE a \in S : \A c \in S : LessEq(c, a)
\* a tensor of finite entries
tensor(v) == [i \in 1..Len(v) |-> Fin(v[i])]

\* variant: the lower end of the interval for the lower bound whatever the sign
compute_range_by_IA_unsigned(A, b, x_lb, x_ub) ==
    LET output_lb == [i \in 1..Len(A) |->
                         b[i] + SumSeq([j \in 1..Len(x_lb) |-> A[i][j] * x_lb[j]])]
        output_ub == [i \in 1..Len(A) |->
                         b[i] + SumSeq([j \in 1..Len(x_lb) |-> A[i][j] * x_ub[j]])]
    IN <<output_lb, output_ub>>

\* lines 87-97: the sign of A[i, j] selects the end of the interval
compute_range_by_IA(A, b, x_lb, x_ub) ==
    LET output_lb == [i \in 1..Len(A) |->
                         b[i] + SumSeq([j \in 1..Len(x_lb) |->
                                           IF A[i][j] < 0 THEN A[i][j] * x_ub[j]
                                           ELSE A[i][j] * x_lb[j]])]
        output_ub == [i \in 1..Len(A) |->
                         b[i] + SumSeq([j \in 1..Len(x_lb) |->
                                           IF A[i][j] < 0 THEN A[i][j] * x_lb[j]
                                           ELSE A[i][j] * x_ub[j]])]
    IN <<output_lb, output_ub>>
\* torch.nn.ReLU and torch.nn.LeakyReLU applied to a tensor
relu(v) == [i \in 1..Len(v) |-> Max2(0, v[i])]
leaky_relu(negative_slope, v) ==
    [i \in 1..Len(v) |-> IF v[i] >= 0 THEN v[i] ELSE negative_slope * v[i]]
Layer(cls, negative_slope, weight, bias) ==
    [cls |-> cls, negative_slope |-> negative_slope, weight |-> weight, bias |-> bias]

\* the linear program of compute_range_by_lp: x_lb <= x <= x_ub (a missing
\* bound is infinite) and C x <= d, for rows of C with one entry 1 or -1 and
\* zeros elsewhere, which bound one coordinate from above or from below.
\* lp_lower and lp_upper are the ends of the feasible interval of coordinate j.
lp_lower(m, j) ==
    ExtMax({IF IsNone(m.x_lb) THEN NegInf ELSE Fin(Get(m.x_lb)[j])}
           \cup (IF IsNone(m.C) THEN {}
                 ELSE {Fin(0 - Get(m.d)[r]) : r \in {q \in 1..Len(Get(m.C)) : Get(m.C)[q][j] < 0}}))
lp_upper(m, j) ==
    ExtMin({IF IsNone(m.x_ub) THEN PosInf ELSE Fin(Get(m.x_ub)[j])}
           \cup (IF IsNone(m.C) THEN {}
                 ELSE {Fin(Get(m.d)[r]) : r \in {q \in 1..Len(Get(m.C)) : Get(m.C)[q][j] > 0}}))
lp_x_dim(m) == Len(m.A[1])
lp_feasible(m) == \A j \in 1..lp_x_dim(m) : LessEq(lp_lower(m, j), lp_upper(m, j))
\* the objective c x + constant grows without limit in the direction of sense
lp_unbounded(m, c, sense) ==
    \E j \in 1..lp_x_dim(m) :
       IF (sense = "MAXIMIZE") = (c[j] > 0)
       THEN c[j] # 0 /\ lp_upper(m, j).inf # 0
       ELSE c[j] # 0 /\ lp_lower(m, j).inf # 0
\* the vertices of the feasible box (a coordinate without a finite end has
\* coefficient zero in a bounded program; 0 stands for it)
lp_ends(m, j) ==
    LET finite == {e.val : e \in {a \in {lp_lower(m, j), lp_upper(m, j)} : a.inf = 0}}
    IN IF finite = {} THEN {0} ELSE finite
lp_vertices(m) ==
    {v \in [1..lp_x_dim(m) -> UNION {lp_ends(m, j) : j \in 1..lp_x_dim(m)}] :
        \A j \in 1..lp_x_dim(m) : v[j] \in lp_ends(m, j)}
\* model.ObjVal after an optimal solve: the optimum of a linear program is
\* attained at a vertex of the feasible set
ObjVal(m, c, constant, sense) ==
    LET vals == {Dot(c, v) + constant : v \in lp_vertices(m)}
    IN IF sense = "MAXIMIZE" THEN CHOOSE a \in vals : \A e \in vals : e <= a
       ELSE CHOOSE a \in vals : \A e \in vals : a <= e
\* model.status after model.optimize(): the status of the program, or
\* INF_OR_UNBD when presolve proves it infeasible or unbounded without telling
\* which, or NUMERIC when the solve is given up
lp_status(m, c, sense) ==
    IF ~lp_feasible(m) THEN {"INFEASIBLE", "INF_OR_UNBD", "NUMERIC"}
    ELSE IF lp_unbounded(m, c, sense) THEN {"UNBOUNDED", "INF_OR_UNBD", "NUMERIC"}
    ELSE {"OPTIMAL", "NUMERIC"}
Handled == {"OPTIMAL", "INFEASIBLE", "UNBOUNDED"}

\* lines 44-51 and 59-66: the bound stored for a status
y_ub_of(status, objval) ==
    IF status = "OPTIMAL" THEN Fin(objval)
    ELSE IF status = "INFEASIBLE" THEN NegInf ELSE PosInf
\* variant: an infeasible program gives the lower bound -inf
y_lb_of_infeasible_low(status, objval) ==
    IF status = "OPTIMAL" THEN Fin(objval) ELSE NegInf
y_lb_of(status, objval) ==
    IF status = "OPTIMAL" THEN Fin(objval)
    ELSE IF status = "INFEASIBLE" THEN PosInf ELSE NegInf

\* a call of propagate_bounds or of compute_range_by_lp: its arguments, the
\* locals of the linear-programming loop (i, the entries of y_lb and y_ub
\* written so far, the statuses seen), and what it returned or raised
bounds_call(fn, layer, input_lo, input_up, method) ==
    [fn |-> fn, layer |-> layer, input_lo |-> input_lo, input_up |-> input_up,
     method |-> method,
     A |-> <<>>, b |-> <<>>, x_lb |-> None, x_ub |-> None, C |-> None, d |-> None,
     pc |-> "start", i |-> 0, y_lb |-> <<>>, y_ub |-> <<>>, status |-> <<>>,
     out |-> None, exc |-> "none"]
returned(m, lo, up) == [m EXCEPT !.pc = "done", !.out = Some(<<lo, up>>)]
raised(m, exc) == [m EXCEPT !.pc = "raised", !.exc = exc]

propagate_bounds(layer, input_lo, input_up, method) ==
    /\ IsNone(mip)
    /\ method \in {"IA", "LP"}
    /\ LET m == bounds_call("propagate_bounds", layer, input_lo, input_up, method) IN
       mip' = Some(
          IF layer.cls = "ReLU"
          THEN returned(m, tensor(relu(input_lo)), tensor(relu(input_up)))
          ELSE IF layer.cls = "LeakyReLU"
          THEN IF layer.negative_slope >= 0
               THEN returned(m, tensor(leaky_relu(layer.negative_slope, input_lo)),
                             tensor(leaky_relu(layer.negative_slope, input_up)))
               ELSE raised(m, "AssertionError")
          ELSE IF layer.cls = "Linear"
          THEN LET bias == IF IsNone(layer.bias) THEN Zeros(Len(layer.weight))
                           ELSE Get(layer.bias)
               IN IF method = "IA"
                  THEN LET r == compute_range_by_IA(layer.weight, bias, input_lo, input_up)
                       IN returned(m, tensor(r[1]), tensor(r[2]))
                  ELSE [m EXCEPT !.A = layer.weight, !.b = bias,
                                 !.x_lb = Some(input_lo), !.x_ub = Some(input_up),
                                 !.pc = "maximize"]
          ELSE raised(m, "Exception"))
    /\ UNCHANGED <<vf, prog, built, probe, closure, call, ret, ctx, grad, grid, held, evals>>
compute_range_by_lp(A, b, x_lb, x_ub, C, d) ==
    /\ IsNone(mip)
    /\ mip' = Some([bounds_call("compute_range_by_lp", Layer("none", 0, <<>>, None),
                                <<>>, <<>>, "LP")
                       EXCEPT !.A = A, !.b = b, !.x_lb = x_lb, !.x_ub = x_ub,
                              !.C = C, !.d = d, !.pc = "maximize"])
    /\ UNCHANGED <<vf, prog, built, probe, closure, call, ret, ctx, grad, grid, held, evals>>
\* lines 39-51: the upper bound of output i
LPMaximize ==
    /\ ~IsNone(mip) /\ Get(mip).pc = "maximize"
    /\ LET m == Get(mip)
           c == m.A[m.i + 1]
       IN \E status \in lp_status(m, c, "MAXIMIZE") :
             LET m1 == [m EXCEPT !.status = Append(@, <<"MAXIMIZE", status>>)] IN
             mip' = Some(IF status \in Handled
                         THEN [m1 EXCEPT !.y_ub = Append(@, y_ub_of(status,
                                                ObjVal(m, c, m.b[m.i + 1], "MAXIMIZE"))),
                                         !.pc = "minimize"]
                         ELSE raised(m1, "Exception"))
    /\ UNCHANGED <<vf, prog, built, probe, closure, call, ret, ctx, grad, grid, held, evals>>
\* lines 54-66: the lower bound of output i, then the next output
LPMinimize ==
    /\ ~IsNone(mip) /\ Get(mip).pc = "minimize"
    /\ LET m == Get(mip)
           c == m.A[m.i + 1]
       IN \E status \in lp_status(m, c, "MINIMIZE") :
             LET m1 == [m EXCEPT !.status = Append(@, <<"MINIMIZE", status>>)] IN
             mip' = Some(IF status \in Handled
                         THEN [m1 EXCEPT !.y_lb = Append(@, y_lb_of(status,
                                                ObjVal(m, c, m.b[m.i + 1], "MINIMIZE"))),
                                         !.i = @ + 1,
                                         !.pc = IF m.i + 1 < Len(m.A) THEN "maximize"
                                                ELSE "return"]
                         ELSE raised(m1, "Exception"))
    /\ UNCHANGED <<vf, prog, built, probe, closure, call, ret, ctx, grad, grid, held, evals>>
\* line 67, and lines 136-143 for a call through propagate_bounds
LPReturn ==
    /\ ~IsNone(mip) /\ Get(mip).pc = "return"
    /\ mip' = Some(returned(Get(mip), Get(mip).y_lb, Get(mip).y_ub))
    /\ UNCHANGED <<vf, prog, built, probe, closure, call, ret, ctx, grad, grid, held, evals>>

\* arguments of the bound computations
MaxWeight == 2
MaxBound == 1
Rows1 == [1..2 -> (0 - MaxWeight)..MaxWeight]
Weights == {<<w>> : w \in Rows1} \cup {<< <<1, 0 - 1>>, <<0, MaxWeight>> >>}
Layers ==
    {Layer("Linear", 0, W, None) : W \in Weights}
    \cup {Layer("Linear", 0, W, Some([i \in 1..Len(W) |-> i])) : W \in Weights}
    \cup {Layer("ReLU", 0, <<>>, None), Layer("Tanh", 0, <<>>, None)}
    \cup {Layer("LeakyReLU", a, <<>>, None) : a \in {0 - 1, 0, 2}}
Bounds == [1..2 -> (0 - MaxBound)..MaxBound]
LPMatrices == {<< <<1, 0 - 1>> >>, << <<0, 2>>, <<0 - 1, 0>> >>}
LPLower == {None, Some(<<0, 0>>), Some(<<2, 0>>)}
LPUpper == {None, Some(<<1, 1>>)}
LPConstraints ==
    {<<None, None>>,
     <<Some(<< <<1, 0>> >>), Some(<<0>>)>>,
     <<Some(<< <<0, 0 - 1>> >>), Some(<<0 - 2>>)>>,
     <<Some(<< <<0 - 1, 0>>, <<0, 1>> >>), Some(<<1, 3>>)>>}

NextBounds ==
    \/ \E layer \in Layers, lo \in Bounds, up \in Bounds, method \in {"IA", "LP"} :
          propagate_bounds(layer, lo, up, method)
    \/ \E A \in LPMatrices, lb \in LPLower, ub \in LPUpper, Cd \in LPConstraints :
          compute_range_by_lp(A, [i \in 1..Len(A) |-> 0], lb, ub, Cd[1], Cd[2])
    \/ LPMaximize
    \/ LPMinimize
    \/ LPReturn
InitBounds == Init /\ vf.cls = "ValueFunction" /\ vf.N = 2
SpecBounds == InitBounds /\ [][NextBounds]_vars

\* ------------------------------------------------ claims on the bound propagation
\* C17: for an affine layer and a box input_lo <= input_up, method IA returns
\* for output i the lower bound b[i] + sum_j (W[i,j] < 0 ? W[i,j] * up[j] :
\* W[i,j] * lo[j]) and the upper bound with lo and up exchanged; the bounds
\* enclose W x + b on the box, are attained at vertices of the box, and are
\* the bounds method LP returns.
C17_IABoundsAreTightAndEqualLP ==
    (/\ ~IsNone(mip) /\ Get(mip).fn = "propagate_bounds" /\ Get(mip).pc = "done"
     /\ Get(mip).layer.cls = "Linear"
     /\ \A j \in 1..Len(Get(mip).input_lo) : Get(mip).input_lo[j] <= Get(mip).input_up[j]) =>
       LET m == Get(mip)
           W == m.layer.weight
           lo == m.input_lo
           up == m.input_up
           bias(i) == IF IsNone(m.layer.bias) THEN 0 ELSE Get(m.layer.bias)[i]
           lower(i) == bias(i) + SumSeq([j \in 1..Len(lo) |->
                                            IF W[i][j] < 0 THEN W[i][j] * up[j] ELSE W[i][j] * lo[j]])
           upper(i) == bias(i) + SumSeq([j \in 1..Len(lo) |->
                                            IF W[i][j] < 0 THEN W[i][j] * lo[j] ELSE W[i][j] * up[j]])
           box == {x \in [1..Len(lo) -> (0 - MaxBound)..MaxBound] :
                      \A j \in 1..Len(lo) : lo[j] <= x[j] /\ x[j] <= up[j]}
           vertices == {x \in box : \A j \in 1..Len(lo) : x[j] \in {lo[j], up[j]}}
           y(i, x) == Dot(W[i], x) + bias(i)
       IN /\ Len(Get(m.out)[1]) = Len(W) /\ Len(Get(m.out)[2]) = Len(W)
          /\ \A i \in 1..Len(W) :
                /\ Get(m.out)[1][i] = Fin(lower(i))
                /\ Get(m.out)[2][i] = Fin(upper(i))
                /\ \A x \in box : lower(i) <= y(i, x) /\ y(i, x) <= upper(i)
                /\ \E x \in vertices : y(i, x) = lower(i)
                /\ \E x \in vertices : y(i, x) = upper(i)
\* W = [[1, -1]], no bias, the box [0, 1]^2, method LP: the bounds (-1, 1)
C17_Witness ==
    /\ ~IsNone(mip) /\ Get(mip).fn = "propagate_bounds" /\ Get(mip).pc = "done"
    /\ Get(mip).method = "LP"
    /\ Get(mip).layer = Layer("Linear", 0, << <<1, 0 - 1>> >>, None)
    /\ Get(mip).input_lo = <<0, 0>> /\ Get(mip).input_up = <<1, 1>>
    /\ Get(mip).out = Some(<< <<Fin(0 - 1)>>, <<Fin(1)>> >>)

\* C18: in compute_range_by_lp each of the two programs of an output maps
\* its status to the bound: optimal gives the objective value, infeasible
\* gives upper bound -inf and lower bound +inf, unbounded gives upper bound
\* +inf and lower bound -inf; any other status raises an exception and no
\* bounds are returned.
C18_StatusToBound ==
    (~IsNone(mip) /\ Get(mip).A # <<>>) =>
       LET m == Get(mip)
           st == m.status
           sense(k) == IF (k % 2) = 1 THEN "MAXIMIZE" ELSE "MINIMIZE"
           output(k) == (k + 1) \div 2
           bound(k) == IF (k % 2) = 1 THEN m.y_ub[output(k)] ELSE m.y_lb[output(k)]
           optimum(k) == ObjVal(m, m.A[output(k)], m.b[output(k)], sense(k))
       IN /\ Len(m.y_ub) = Cardinality({k \in 1..Len(st) : (k % 2) = 1 /\ st[k][2] \in Handled})
          /\ Len(m.y_lb) = Cardinality({k \in 1..Len(st) : (k % 2) = 0 /\ st[k][2] \in Handled})
          /\ \A k \in 1..Len(st) :
                /\ st[k][1] = sense(k)
                /\ (st[k][2] = "OPTIMAL") => (bound(k) = Fin(optimum(k)))
                /\ (st[k][2] = "INFEASIBLE") =>
                      (bound(k) = IF sense(k) = "MAXIMIZE" THEN NegInf ELSE PosInf)
                /\ (st[k][2] = "UNBOUNDED") =>
                      (bound(k) = IF sense(k) = "MAXIMIZE" THEN PosInf ELSE NegInf)
                /\ (st[k][2] \notin Handled) =>
                      (/\ k = Len(st) /\ m.pc = "raised" /\ m.exc = "Exception"
                       /\ IsNone(m.out))
          /\ (m.pc = "raised") => (Len(st) > 0 /\ st[Len(st)][2] \notin Handled)
          /\ (m.pc = "done") =>
                (/\ Len(st) = 2 * Len(m.A)
                 /\ \A k \in 1..Len(st) : st[k][2] \in Handled
                 /\ m.out = Some(<<m.y_lb, m.y_ub>>))
\* A = [[0, 2], [-1, 0]], no lower bound, x <= (1, 1): the first output is
\* bounded above only and the second below only
C18_Witness ==
    /\ ~IsNone(mip) /\ Get(mip).fn = "compute_range_by_lp" /\ Get(mip).pc = "done"
    /\ Get(mip).status = << <<"MAXIMIZE", "OPTIMAL">>, <<"MINIMIZE", "UNBOUNDED">>,
                            <<"MAXIMIZE", "UNBOUNDED">>, <<"MINIMIZE", "OPTIMAL">> >>
    /\ Get(mip).out = Some(<< <<NegInf, Fin(0 - 1)>>, <<Fin(2), PosInf>> >>)

\* ------------------------------------------------ building the knot points
\* An NLPValueFunction is constructed and knot points, modes, transitions,
\* the initial-state constraint and the terminal cost are added to it, up
\* to MaxKnots knot points.
MaxKnots == 4
\* the calls that raise: ret records the exception of the last such call
\* add_init_state_constraint: assert(self.x0_constraint is None) fails
add_init_state_constraint_asserts ==
    /\ Quiet /\ vf.cls = "NLPValueFunction" /\ closure = "none"
    /\ vf.x0_constraint
    /\ ret' = Some(Raises("AssertionError"))
    /\ UNCHANGED <<vf, prog, built, probe, closure, call, ctx, grad, grid, mip, held, evals>>
\* add_terminal_state_cost: assert(self.Qt is None) fails
add_terminal_state_cost_asserts(Qt) ==
    /\ Quiet /\ vf.cls = "NLPValueFunction" /\ closure = "none"
    /\ ~IsNone(vf.Qt)
    /\ ret' = Some(Raises("AssertionError"))
    /\ UNCHANGED <<vf, prog, built, probe, closure, call, ctx, grad, grid, mip, held, evals>>
\* add_terminal_state_cost without x_desired: self.Qt = Qt is assigned and
\* self.x_desired[-1] raises TypeError
add_terminal_state_cost_no_x_desired(Qt) ==
    /\ Quiet /\ vf.cls = "NLPValueFunction" /\ closure = "none"
    /\ IsNone(vf.Qt) /\ IsNone(vf.x_desired)
    /\ vf' = [vf EXCEPT !.Qt = Some(Qt)]
    /\ ret' = Some(Raises("TypeError"))
    /\ UNCHANGED <<prog, built, probe, closure, call, ctx, grad, grid, mip, held, evals>>
\* get_value_function: assert(self.x0_constraint is not None) fails
NLP_get_value_function_asserts ==
    /\ Quiet /\ vf.cls = "NLPValueFunction" /\ closure = "none"
    /\ ~vf.x0_constraint
    /\ ret' = Some(Raises("AssertionError"))
    /\ UNCHANGED <<vf, prog, built, probe, closure, call, ctx, grad, grid, mip, held, evals>>
\* get_differentiable_value_function: assert(self.x0_constraint is not None)
\* fails
NLP_get_differentiable_value_function_asserts ==
    /\ Quiet /\ vf.cls = "NLPValueFunction" /\ closure = "none"
    /\ ~vf.x0_constraint
    /\ ret' = Some(Raises("AssertionError"))
    /\ UNCHANGED <<vf, prog, built, probe, closure, call, ctx, grad, grid, mip, held, evals>>
NextKnots ==
    \/ \E K \in 1..(MaxKnots - 1), guard \in BOOLEAN, guard_jax \in BOOLEAN :
          vf.N + K <= MaxKnots /\ add_mode(K, guard, guard_jax)
    \/ \E m \in {0, 1} : vf.N + 1 <= MaxKnots /\ add_transition(m)
    \/ \E m \in {0, 1} : vf.N + 1 <= MaxKnots /\ AddKnotPoint(m)
    \/ add_init_state_constraint
    \/ add_init_state_constraint_asserts
    \/ add_terminal_state_cost(NLP_Qt_in)
    \/ add_terminal_state_cost_asserts(NLP_Qt_in)
    \/ add_terminal_state_cost_no_x_desired(NLP_Qt_in)
    \/ NLP_get_value_function
    \/ NLP_get_value_function_asserts
    \/ NLP_get_differentiable_value_function
    \/ NLP_get_differentiable_value_function_asserts
InitKnots == Init /\ vf.cls = "NLPValueFunction"
SpecKnots == InitKnots /\ [][NextKnots]_vars

\* ------------------------------------------------ claims on the knot points
IsPrefix(a, c) == Len(a) <= Len(c) /\ SubSeq(c, 1, Len(a)) = a
\* the bounding boxes that come with knot point n of mode m
KnotBoxes(n) ==
    <<[lb |-> nlp_x_lo, ub |-> nlp_x_up, vars |-> knot_var("x", n)],
      [lb |-> nlp_u_lo, ub |-> nlp_u_up, vars |-> knot_var("u", n)],
      [lb |-> nlp_dt_lo, ub |-> nlp_dt_up, vars |-> knot_var("dt", n)]>>
KnotListsAgree(self) ==
    /\ Len(self.x_traj) >= 1 /\ self.N = Len(self.x_traj)
    /\ Len(self.u_traj) = Len(self.x_traj)
    /\ Len(self.dt_traj) = Len(self.x_traj)
    /\ Len(self.mode_traj) = Len(self.x_traj)
    /\ \A n \in 1..Len(self.x_traj) :
          /\ self.x_traj[n] = knot_var("x", n - 1)
          /\ self.u_traj[n] = knot_var("u", n - 1)
          /\ self.dt_traj[n] = knot_var("dt", n - 1)
          /\ \A b \in 1..3 :
                Cardinality({k \in 1..Len(self.bb_constraints) :
                                self.bb_constraints[k] = KnotBoxes(n - 1)[b]}) = 1
    /\ Len(self.bb_constraints) = 3 * Len(self.x_traj) + (IF self.x0_constraint THEN 1 ELSE 0)

C20_GuardOnEveryKnotOfTheMode ==
    (vf.cls = "NLPValueFunction") =>
       LET nl == vf.nl_constraints
           HasGuard(n) ==
              \E g \in 1..Len(nl) :
                 /\ nl[g].fun = "guard" /\ nl[g].vars = knot_vars(n)
                 /\ nl[g].lb = <<Fin(0)>> /\ nl[g].ub = <<PosInf>>
           HasDynamics(n) ==
              \E g \in 1..Len(nl) :
                 /\ nl[g].fun = "dyn_fun" /\ nl[g].vars = knot_vars(n - 1) \o knot_vars(n)
                 /\ nl[g].lb = zero_bounds(vf.x_dim[vf.mode_traj[n] + 1])
                 /\ nl[g].ub = nl[g].lb
       IN \A k \in 1..Len(nl) :
             (nl[k].fun = "guard" /\ nl[k].ub = <<PosInf>>) =>
                \* nl[k] is the guard of a knot point n appended by add_mode;
                \* knot point n - 1 belongs to the same segment
                LET n == nl[k].vars[1][2] IN
                /\ HasGuard(n) /\ HasDynamics(n)
                /\ vf.mode_traj[n] = vf.mode_traj[n + 1]
                /\ HasGuard(n - 1)
\* add_mode(2, dyn, guard) on a new object: three knot points in mode 0, the
\* guard on the second and the third only
C20_Witness ==
    /\ vf.cls = "NLPValueFunction" /\ vf.mode_traj = <<0, 0, 0>>
    /\ Len(vf.nl_constraints) = 4
    /\ vf.nl_constraints[2] = [fun |-> "guard", lb |-> <<Fin(0)>>, ub |-> <<PosInf>>,
                               vars |-> knot_vars(1)]
    /\ vf.nl_constraints[4] = [fun |-> "guard", lb |-> <<Fin(0)>>, ub |-> <<PosInf>>,
                               vars |-> knot_vars(2)]
    /\ \A k \in 1..4 : vf.nl_constraints[k].vars # knot_vars(0)

\* the entries of the program's costs that carry the terminal weight self.Qt
QtCosts(self) ==
    {k \in 1..Len(self.costs) :
        self.costs[k].kind = "error" /\ ~IsNone(self.Qt) /\ self.costs[k].Q = Get(self.Qt)}
\* the knot point and the desired state to which step_cost and the cost
\* Hessian and gradient of the differentiable layer apply Qt: n == self.N - 1
\* and x_desired[mode_traj[n]]
QtKnotOfStepCost(self) == self.N - 1
QtDesiredOfStepCost(self) == Get(self.x_desired)[self.mode_traj[self.N] + 1]

\* C21: after any sequence of builder calls, the Qt term of the program is
\* on the state variables of knot point N-1, the knot point (and the desired
\* state) to which step_cost and the differentiable layer apply Qt.
C21_TerminalCostOnLastKnot ==
    (vf.cls = "NLPValueFunction" /\ ~IsNone(vf.Qt)) =>
        \A k \in QtCosts(vf) :
           /\ vf.costs[k].var = knot_var("x", QtKnotOfStepCost(vf))
           /\ vf.costs[k].x_desired = QtDesiredOfStepCost(vf)
\* the builder calls in the order constructor (mode 0), add_mode(2),
\* add_terminal_state_cost: the Qt term is on the last knot point, with the
\* desired state of the last mode of the list and not of the knot's mode
C21_Witness ==
    /\ vf.cls = "NLPValueFunction" /\ ~IsNone(vf.Qt)
    /\ vf.mode_traj = <<0, 0, 0>>
    /\ \E k \in QtCosts(vf) :
          /\ vf.costs[k].var = knot_var("x", 2)
          /\ vf.costs[k].x_desired = <<0>>
          /\ QtDesiredOfStepCost(vf) = <<1>>
    /\ Len(vf.costs) = 4 /\ vf.costs[4].Q = NLP_Qt_in

\* C22: each add_transition call appends exactly one knot point, in mode
\* new_mode, and exactly two nonlinear constraints, both equalities with
\* lower and upper bound 0: the transition residual over the variables of
\* the previous last knot point and the new one, and the guard residual over
\* the variables of the previous last knot point.
C22_TransitionAddsKnotAndTwoEqualities ==
    [][\A new_mode \in {0, 1} :
          add_transition(new_mode) =>
             LET N0 == Len(vf.x_traj)
                 C0 == Len(vf.nl_constraints)
                 nl == vf'.nl_constraints
             IN /\ Len(vf'.x_traj) = N0 + 1 /\ vf'.N = vf.N + 1
                /\ SubSeq(vf'.x_traj, 1, N0) = vf.x_traj
                /\ SubSeq(vf'.mode_traj, 1, N0) = vf.mode_traj
                /\ vf'.mode_traj[N0 + 1] = new_mode
                /\ Len(nl) = C0 + 2 /\ SubSeq(nl, 1, C0) = vf.nl_constraints
                /\ nl[C0 + 1].fun = "transition_fun"
                /\ nl[C0 + 1].vars = knot_vars(N0 - 1) \o knot_vars(N0)
                /\ nl[C0 + 1].lb = zero_bounds(vf.x_dim[new_mode + 1])
                /\ nl[C0 + 1].ub = zero_bounds(vf.x_dim[new_mode + 1])
                /\ nl[C0 + 2].fun = "guard"
                /\ nl[C0 + 2].vars = knot_vars(N0 - 1)
                /\ nl[C0 + 2].lb = <<Fin(0)>> /\ nl[C0 + 2].ub = <<Fin(0)>>
      ]_vars
\* a transition to mode 1 after a segment of two knot points in mode 0
C22_Witness ==
    /\ vf.cls = "NLPValueFunction" /\ vf.mode_traj = <<0, 0, 1>>
    /\ Len(vf.nl_constraints) = 3
    /\ vf.nl_constraints[2] = [fun |-> "transition_fun", lb |-> <<Fin(0)>>, ub |-> <<Fin(0)>>,
                               vars |-> knot_vars(1) \o knot_vars(2)]
    /\ vf.nl_constraints[3] = [fun |-> "guard", lb |-> <<Fin(0)>>, ub |-> <<Fin(0)>>,
                               vars |-> knot_vars(1)]

\* the bounding boxes on x0 with bounds [0, 0]: the initial-state constraint
X0Constraints(self) ==
    {k \in 1..Len(self.bb_constraints) :
        /\ self.bb_constraints[k].vars = knot_var("x", 0)
        /\ self.bb_constraints[k].lb = Zeros(self.x_dim[self.mode_traj[1] + 1])
        /\ self.bb_constraints[k].ub = self.bb_constraints[k].lb}

\* C26: get_value_function and get_differentiable_value_function return only
\* after add_init_state_constraint has been called and fail with an assertion
\* otherwise; add_init_state_constraint and add_terminal_state_cost succeed
\* at most once per instance, a second call failing with an assertion; a call
\* that fails with an assertion leaves the knot points, the constraint lists,
\* x0_constraint and Qt unchanged.
C26_BuilderProtocol ==
    [][(vf.cls = "NLPValueFunction") =>
          LET asserts == \/ add_init_state_constraint_asserts
                         \/ add_terminal_state_cost_asserts(NLP_Qt_in)
                         \/ NLP_get_value_function_asserts
                         \/ NLP_get_differentiable_value_function_asserts
              obtained == closure = "none" /\ closure' \in {"nlpV", "nlpdiff"}
          IN /\ obtained => (vf.x0_constraint /\ Cardinality(X0Constraints(vf)) = 1)
             /\ (NLP_get_value_function_asserts
                 \/ NLP_get_differentiable_value_function_asserts)
                   <=> (~vf.x0_constraint /\ closure = "none" /\ ~obtained
                        /\ ret' = Some(Raises("AssertionError")) /\ vf' = vf
                        /\ UNCHANGED <<prog, built, probe, closure, call, ctx, grad, grid, mip, held, evals>>)
             /\ add_init_state_constraint => (~vf.x0_constraint /\ vf'.x0_constraint)
             /\ vf.x0_constraint =>
                   (/\ vf'.x0_constraint
                    /\ Cardinality(X0Constraints(vf')) = 1
                    /\ ~add_init_state_constraint)
             /\ ~vf.x0_constraint => (X0Constraints(vf) = {})
             /\ add_terminal_state_cost(NLP_Qt_in) => IsNone(vf.Qt)
             /\ ~IsNone(vf.Qt) =>
                   (/\ vf'.Qt = vf.Qt
                    /\ Cardinality(QtCosts(vf')) = Cardinality(QtCosts(vf))
                    /\ Cardinality(QtCosts(vf)) <= 1)
             /\ asserts =>
                   (/\ ret' = Some(Raises("AssertionError"))
                    /\ vf'.x_traj = vf.x_traj /\ vf'.u_traj = vf.u_traj
                    /\ vf'.dt_traj = vf.dt_traj /\ vf'.mode_traj = vf.mode_traj
                    /\ vf'.nl_constraints = vf.nl_constraints
                    /\ vf'.bb_constraints = vf.bb_constraints
                    /\ vf'.x0_constraint = vf.x0_constraint /\ vf'.Qt = vf.Qt
                    /\ vf'.costs = vf.costs)
      ]_vars
\* a second call of add_terminal_state_cost or of add_init_state_constraint
\* has raised, and the object holds one initial-state constraint and one
\* terminal cost
C26_Witness ==
    /\ vf.cls = "NLPValueFunction" /\ closure = "nlpdiff"
    /\ ret = Some(Raises("AssertionError"))
    /\ vf.x0_constraint /\ Cardinality(X0Constraints(vf)) = 1
    /\ ~IsNone(vf.Qt) /\ Cardinality(QtCosts(vf)) = 1
    /\ vf.N = 2

\* grads_g of get_differentiable_value_function: for n in
\* range(len(self.nl_constraints)) it reads the knot points n and n + 1
grads_g_reads(self) ==
    UNION {{n, n + 1} : n \in 0..(Len(self.nl_constraints) - 1)}

\* C27: for every sequence of add_mode (with or without guard) and
\* add_transition calls, the constraint-Jacobian assembly reads only knot
\* points that exist: the number of nonlinear constraints never exceeds N-1
\* and constraint n is the one linking the knot points n and n+1.
C27_JacobianReadsExistingKnots ==
    (vf.cls = "NLPValueFunction") =>
        /\ \A n \in grads_g_reads(vf) : n <= Len(vf.x_traj) - 1
        /\ Len(vf.nl_constraints) <= vf.N - 1
        /\ \A n \in 0..(Len(vf.nl_constraints) - 1) :
              vf.nl_constraints[n + 1].vars = knot_vars(n) \o knot_vars(n + 1)
\* after the constructor and add_transition(1): two knot points and two
\* constraints, the second the guard on knot point 0; the assembly reads
\* the knot points 0, 1 and 2
C27_Witness ==
    /\ vf.cls = "NLPValueFunction" /\ vf.N = 2 /\ vf.mode_traj = <<0, 1>>
    /\ Len(vf.nl_constraints) = 2
    /\ vf.nl_constraints[2].fun = "guard" /\ vf.nl_constraints[2].vars = knot_vars(0)
    /\ grads_g_reads(vf) = {0, 1, 2}
    /\ vf.x0_constraint /\ closure = "nlpdiff"

\* ------------------------------------------------------------ the setters
\* The four setters are called in any order on a ValueFunction, with each
\* argument None or a tensor; Q, qt, xtraj and x0 take one of two tensors.
\* At most MaxSetFields fields are set at a time.
MaxSetFields == 3
SetterFieldNames == CostFieldNames \cup {"x0", "xN"}
NumSetFields(self) == Cardinality({f \in SetterFieldNames : ~IsNone(self[f])})
Q_args == {None, Some(Q_in), Some(Qt_in)}
qt_args == {None, Some(qt_in), Some(q_in)}
xtraj_args(N) == {None, Some(xtraj_in(N)), Some(ZerosM(2, N))}
NextSetters ==
    \/ \E Qa \in Q_args, R \in Opt(R_in), Z \in Opt(Z_in),
          q \in Opt(q_in), r \in Opt(r_in), z \in Opt(z_in) :
            set_cost(Qa, R, Z, q, r, z) /\ NumSetFields(vf') <= MaxSetFields
    \/ \E Qt \in Opt(Qt_in), Rt \in Opt(Rt_in), Zt \in Opt(Zt_in),
          qt \in qt_args, rt \in Opt(rt_in), zt \in Opt(zt_in) :
            set_terminal_cost(Qt, Rt, Zt, qt, rt, zt) /\ NumSetFields(vf') <= MaxSetFields
    \/ \E x0 \in X0Args, xN \in XNArgs :
            set_constraints(x0, xN) /\ NumSetFields(vf') <= MaxSetFields
    \/ \E xtraj \in xtraj_args(vf.N), utraj \in Opt(utraj_in(vf.N)),
          alphatraj \in Opt(alphatraj_in(vf.N)) :
            set_traj(xtraj, utraj, alphatraj) /\ NumSetFields(vf') <= MaxSetFields
SpecSetters == InitCost /\ [][NextSetters]_vars

\* the instance after a setter call with the arguments a (a record, one
\* field per parameter): a field whose argument is not None holds the
\* argument, every other field is as before
FrameOf(self, a) ==
    [f \in DOMAIN self |-> IF f \in DOMAIN a THEN (IF IsNone(a[f]) THEN self[f] ELSE a[f])
                           ELSE self[f]]

\* C28: each setter of ValueFunction changes exactly the fields whose
\* argument is not None and leaves every other field of the instance
\* unchanged; a None argument never clears a field.
C28_SettersFrame ==
    [][/\ \A Qa \in Q_args, R \in Opt(R_in), Z \in Opt(Z_in),
             q \in Opt(q_in), r \in Opt(r_in), z \in Opt(z_in) :
             set_cost(Qa, R, Z, q, r, z) =>
                (vf' = FrameOf(vf, [Q |-> Qa, R |-> R, Z |-> Z, q |-> q, r |-> r, z |-> z]))
       /\ \A Qt \in Opt(Qt_in), Rt \in Opt(Rt_in), Zt \in Opt(Zt_in),
             qt \in qt_args, rt \in Opt(rt_in), zt \in Opt(zt_in) :
             set_terminal_cost(Qt, Rt, Zt, qt, rt, zt) =>
                (vf' = FrameOf(vf, [Qt |-> Qt, Rt |-> Rt, Zt |-> Zt,
                                    qt |-> qt, rt |-> rt, zt |-> zt]))
       /\ \A x0 \in X0Args, xN \in XNArgs :
             set_constraints(x0, xN) => (vf' = FrameOf(vf, [x0 |-> x0, xN |-> xN]))
       /\ \A xtraj \in xtraj_args(vf.N), utraj \in Opt(utraj_in(vf.N)),
             alphatraj \in Opt(alphatraj_in(vf.N)) :
             set_traj(xtraj, utraj, alphatraj) =>
                (vf' = FrameOf(vf, [xtraj |-> xtraj, utraj |-> utraj,
                                    alphatraj |-> alphatraj]))
       /\ \A f \in SetterFieldNames : (vf'[f] # vf[f]) => ~IsNone(vf'[f])
      ]_vars
\* Q was given twice and holds the second tensor; x0 was set by a call of
\* set_constraints and kept by the later calls
C28_Witness ==
    /\ vf.cls = "ValueFunction" /\ vf.Q = Some(Qt_in) /\ vf.x0 = Some(<<Some(0), NaN>>)
    /\ NumSetFields(vf) = 2 /\ IsNone(vf.Qt)

\* ------------------------------------------- setters after the layer
\* The cost, the terminal cost and the reference trajectory are set before
\* and after the differentiable value function is obtained, between the
\* calls of forward.
NextLate ==
    \/ /\ vf.cls = "ValueFunction"
       /\ \E Qa \in Opt(Q_in) : set_cost(Qa, None, None, None, None, None)
    \/ /\ vf.cls = "ValueFunction"
       /\ \E Qta \in Opt(Qt_in) : set_terminal_cost(Qta, None, None, None, None, None)
    \/ /\ vf.cls = "ValueFunction"
       /\ \E xtraj \in Opt(xtraj_in(vf.N)) : set_traj(xtraj, None, None)
    \/ (closure = "none" /\ vf.cls = "ValueFunction" /\ get_differentiable_value_function)
    \/ \E x \in DiffPoints : forward(x)
    \/ SolveStep
    \/ ForwardNaN
    \/ ForwardAssert
    \/ ForwardReturn
SpecLate == InitCost /\ [][NextLate]_vars

BackwardVals == {0, 1}
BackwardVectors(n) == [1..n -> BackwardVals]
BackwardContexts(n) ==
    [x : BackwardVectors(n), success : BOOLEAN,
     lambda_G : {Some(<<v>>) : v \in BackwardVals},
     lambda_A : {Some(<<v>>) : v \in BackwardVals}, dfdp : {None}]
BackwardBlocks(n) ==
    [Aeq1 : {<<a>> : a \in BackwardVectors(n)}, Ain1 : {<<a>> : a \in BackwardVectors(n)},
     Q1 : {ZerosM(n, n), [i \in 1..n |-> [j \in 1..n |-> IF i = j THEN 2 ELSE 1]]},
     q1 : {Zeros(n), [i \in 1..n |-> i]}]
InitBackward ==
    /\ vf = ValueFunction(2)
    /\ \E n \in {1, 2} :
          /\ prog \in {Some(P) : P \in BackwardBlocks(n)}
          /\ ctx \in {Some(c) : c \in BackwardContexts(n)}
          /\ ret = Some(IF Get(ctx).success
                        THEN Outputs(<<Nums(Get(ctx).x)>>, <<Some(0)>>)
                        ELSE nan_outputs(n, 2))
    /\ built = Some(vf) /\ probe = None
    /\ closure = "diff" /\ call = Idle /\ grad = None
    /\ grid = None /\ mip = None /\ held = None /\ evals = None
NextBackward ==
    /\ IsNone(grad)
    /\ \E gx \in GradsOfFlat(Len(Get(ctx).x)), g0 \in 0..2 : backward(gx, <<g0>>)
SpecBackward == InitBackward /\ [][NextBackward]_vars

\* C25: after a successful forward pass at x0, backward returns
\* upstream[0] * (lambda_eq' A0 + lambda_ineq' G0 + q1 + Q1 x0) with the
\* blocks of the layer and the duals of the re-solved QP; the result has
\* the shape of x0 and the second returned gradient is None.
C25_BackwardGradient ==
    (closure = "diff" /\ ~IsNone(grad) /\ Get(grad).exc = "none" /\ Get(ctx).success) =>
        LET P == Get(prog)
            g == Get(grad)
            x0 == Get(ctx).x
            dy == [i \in 1..Len(x0) |->
                      Dot(Get(Get(ctx).lambda_A), Col(P.Aeq1, i - 1))
                      + Dot(Get(Get(ctx).lambda_G), Col(P.Ain1, i - 1))
                      + P.q1[i] + Dot(P.Q1[i], x0)]
        IN /\ g.grad_input
                = Some([i \in 1..Len(x0) |-> Some(g.grad_output_cost_to_go[1] * dy[i])])
           /\ g.shape = Some(<<Len(x0)>>)
           /\ IsNone(g.grad_args)
\* a system with one state: the gradient has the value of the formula and
\* no dimension, while x0 has one
C25_Witness ==
    /\ closure = "diff" /\ ~IsNone(grad) /\ Get(grad).exc = "none" /\ Get(ctx).success
    /\ Get(ctx).x = <<1>> /\ Get(grad).grad_output_cost_to_go = <<2>>
    /\ Get(ctx).lambda_A = Some(<<1>>) /\ Get(prog).Aeq1 = << <<1>> >>
    /\ Get(ctx).lambda_G = Some(<<0>>) /\ Get(prog).q1 = <<1>> /\ Get(prog).Q1 = << <<2>> >>
    /\ Get(grad).grad_input = Some(<<Some(8)>>)
    /\ Get(grad).shape = Some(<<>>)

\* ------------------------------------------- two calls of one layer
\* Each call of the layer has its own context object.  forward is called
\* again while the outputs of the previous call, and with them its context,
\* are still held, and backward of the previous call runs after the second
\* forward has returned.
\* variant: Q1 is multiplied with the value of the parameter x0 of the
\* program instead of ctx.x
backward_ctx_parameter(c, grad_output_x_traj_flat, grad_output_cost_to_go) ==
    IF ~AllZero(grad_output_x_traj_flat[1])
       \/ ~AllZero(Slice(grad_output_cost_to_go, 1, Len(grad_output_cost_to_go)))
    THEN Backward(grad_output_x_traj_flat, grad_output_cost_to_go, "AssertionError", None, None)
    ELSE IF ~c.success
    THEN Backward(grad_output_x_traj_flat, grad_output_cost_to_go, "none",
                  Some(NaNs(Len(c.x))), Some(<<Len(c.x)>>))
    ELSE LET P == Get(prog)
             dy == VecAdd(VecAdd(VecAdd(VecMat(Get(c.lambda_A), P.Aeq1),
                                        VecMat(Get(c.lambda_G), P.Ain1)),
                                 P.q1),
                          MatVec(P.Q1, call.x))
         IN Backward(grad_output_x_traj_flat, grad_output_cost_to_go, "none",
                     Some(Nums(Scale(grad_output_cost_to_go[1], dy))),
                     Some(squeeze(<<1, Len(dy)>>)))
\* DiffFiniteHorizonValueFunction.backward on the context c of its call
backward_ctx(c, grad_output_x_traj_flat, grad_output_cost_to_go) ==
    IF ~AllZero(grad_output_x_traj_flat[1])
       \/ ~AllZero(Slice(grad_output_cost_to_go, 1, Len(grad_output_cost_to_go)))
    THEN Backward(grad_output_x_traj_flat, grad_output_cost_to_go, "AssertionError", None, None)
    ELSE IF ~c.success
    THEN Backward(grad_output_x_traj_flat, grad_output_cost_to_go, "none",
                  Some(NaNs(Len(c.x))), Some(<<Len(c.x)>>))
    ELSE LET P == Get(prog)
             dy == VecAdd(VecAdd(VecAdd(VecMat(Get(c.lambda_A), P.Aeq1),
                                        VecMat(Get(c.lambda_G), P.Ain1)),
                                 P.q1),
                          MatVec(P.Q1, c.x))
         IN Backward(grad_output_x_traj_flat, grad_output_cost_to_go, "none",
                     Some(Nums(Scale(grad_output_cost_to_go[1], dy))),
                     Some(squeeze(<<1, Len(dy)>>)))
\* DiffFiniteHorizonNLPValueFunction.backward on the context c of its call
NLP_backward_ctx(c, grad_output_x_traj_flat, grad_output_cost_to_go) ==
    IF ~AllZero(grad_output_x_traj_flat[1])
       \/ ~AllZero(Slice(grad_output_cost_to_go, 1, Len(grad_output_cost_to_go)))
    THEN Backward(grad_output_x_traj_flat, grad_output_cost_to_go, "AssertionError", None, None)
    ELSE IF ~c.success
    THEN Backward(grad_output_x_traj_flat, grad_output_cost_to_go, "none",
                  Some(NaNs(Len(c.x))), Some(<<Len(c.x)>>))
    ELSE IF Len(grad_output_cost_to_go) = 0
    THEN Backward(grad_output_x_traj_flat, grad_output_cost_to_go, "IndexError", None, None)
    ELSE Backward(grad_output_x_traj_flat, grad_output_cost_to_go, "none",
                  Some(Nums(Scale(grad_output_cost_to_go[1], Get(c.dfdp)))),
                  Some(squeeze(<<1, Len(Get(c.dfdp))>>)))
\* forward is called at x while the outputs of the call before are held
forward_again(x) ==
    /\ Quiet /\ closure \in {"diff", "nlpdiff"} /\ IsNone(held)
    /\ ~IsNone(ret) /\ Get(ret).exc = "none"
    /\ held' = Some([ctx |-> Get(ctx), ret |-> Get(ret), grad |-> None])
    /\ call' = [pc |-> IF closure = "diff" THEN "solve" ELSE "nlpsolve",
                x |-> x, u |-> None, xs |-> <<>>, al |-> <<>>]
    /\ ret' = None /\ grad' = None
    /\ ctx' = Some([x |-> x, success |-> FALSE, lambda_G |-> None, lambda_A |-> None,
                    dfdp |-> None])
    /\ UNCHANGED <<vf, prog, built, probe, closure, grid, mip, evals>>
\* backward of the held call, after the later forward has returned
backward_held(grad_output_x_traj_flat, grad_output_cost_to_go) ==
    /\ Quiet /\ ~IsNone(held) /\ IsNone(Get(held).grad) /\ ~IsNone(ret)
    /\ held' = Some([Get(held) EXCEPT !.grad = Some(
          IF closure = "diff"
          THEN backward_ctx(Get(held).ctx, grad_output_x_traj_flat, grad_output_cost_to_go)
          ELSE NLP_backward_ctx(Get(held).ctx, grad_output_x_traj_flat,
                                grad_output_cost_to_go))])
    /\ UNCHANGED <<vf, prog, built, probe, closure, call, ret, ctx, grad, grid, mip, evals>>

CallPoints == {<<0, 0>>, <<1, 0>>, <<0, 2>>}
InitCalls ==
    /\ Init
    /\ vf \in {ValueFunction(2), NLPValueFunction(0, Some(NLP_Q_in), Some(NLP_x_desired_in), None)}
NextCalls ==
    \/ /\ closure = "none" /\ vf.cls = "ValueFunction"
       /\ \E Qa \in Opt(Q_in) : set_cost(Qa, None, None, None, Some(r_in), None)
    \/ (closure = "none" /\ vf.cls = "ValueFunction" /\ get_differentiable_value_function)
    \/ \E x \in CallPoints : IsNone(ret) /\ forward(x)
    \/ \E x \in CallPoints : closure = "diff" /\ forward_again(x)
    \/ SolveStep
    \/ ForwardNaN
    \/ ForwardAssert
    \/ ForwardReturn
    \/ /\ ~IsNone(held)
       /\ \E gx \in GradsOfFlat(Len(Get(held).ret.x_traj_flat[1])),
             gc \in GradsOfCostToGo(Len(Get(held).ret.cost_to_go)) :
                backward_held(gx, gc)
    \/ (vf.N = 1 /\ add_mode(1, FALSE, FALSE))
    \/ add_init_state_constraint
    \/ NLP_get_differentiable_value_function
    \/ \E x \in NLPPoints : IsNone(ret) /\ NLP_forward(x)
    \/ \E x \in NLPPoints : closure = "nlpdiff" /\ forward_again(x)
    \/ NLP_ForwardNaN
    \/ NLP_ForwardReturn
SpecCalls == InitCalls /\ [][NextCalls]_vars

\* C30: backward of a call uses only what forward of that call recorded
\* (its x0, its success flag, its duals or its sensitivity vector): when
\* forward ran at x_a and then at x_b on the same layer before backward of
\* the first call, that backward returns the gradient, or the NaN gradient,
\* of x_a.
C30_BackwardUsesItsOwnContext ==
    (~IsNone(held) /\ ~IsNone(Get(held).grad) /\ Get(Get(held).grad).exc = "none") =>
        LET c == Get(held).ctx
            g == Get(Get(held).grad)
            P == Get(prog)
            dy == IF closure = "nlpdiff" THEN Get(c.dfdp)
                  ELSE [i \in 1..Len(c.x) |->
                           Dot(Get(c.lambda_A), Col(P.Aeq1, i - 1))
                           + Dot(Get(c.lambda_G), Col(P.Ain1, i - 1))
                           + P.q1[i] + Dot(P.Q1[i], c.x)]
        IN g.grad_input
              = Some(IF c.success
                     THEN [i \in 1..Len(c.x) |-> Some(g.grad_output_cost_to_go[1] * dy[i])]
                     ELSE NaNs(Len(c.x)))
\* the first forward succeeded at x_a = (1, 0) with the cost Q set, the
\* second ended without a point at x_b = (0, 2), and backward of the first
\* call returned the gradient of x_a
C30_Witness ==
    /\ closure = "diff" /\ ~IsNone(held) /\ ~IsNone(Get(held).grad)
    /\ Get(held).ctx.x = <<1, 0>> /\ Get(held).ctx.success
    /\ Get(ctx).x = <<0, 2>> /\ ~Get(ctx).success
    /\ ~IsNone(vf.Q)
    /\ Get(Get(held).grad).grad_output_cost_to_go = <<1>>
    /\ Get(Get(held).grad).exc = "none"
    /\ Get(Get(held).grad).grad_input
          # Some(Nums(MatVec(Get(prog).Q1, Get(ctx).x)))

\* ------------------------------------------- evaluations by two callers
\* Two callers evaluate closures.  An instance is a closure with its
\* parameter x0 (cvxpy) or the NLPValueFunction with its x0_constraint;
\* instance[c] is the instance caller c uses: both callers the same one, or
\* each its own.  An evaluation is three steps, the write of the parameter
\* (x0.value = x, set_bounds(x, x)), the solve, which reads the parameter,
\* and the return; the steps of the two callers interleave in any order.
\* writes[i] lists the values written to instance i, and interfered says
\* that another caller wrote the instance after this caller's write.
MaxEvaluations == 2
Callers == {1, 2}
EvalPoints == {<<0, 0>>, <<1, 0>>, <<0, 1>>}
IdleCaller == [pc |-> "idle", x |-> None, solved_with |-> None, interfered |-> FALSE,
               done |-> 0]
InitEvals ==
    /\ vf = ValueFunction(2)
    /\ prog = None /\ built = None /\ probe = None
    /\ closure = "none" /\ call = Idle /\ ret = None
    /\ ctx = None /\ grad = None
    /\ grid = None /\ mip = None /\ held = None
    /\ evals \in {Some([instance |-> a, param |-> <<None, None>>,
                        writes |-> << <<>>, <<>> >>,
                        callers |-> [c \in Callers |-> IdleCaller]]) :
                     a \in {<<1, 1>>, <<1, 2>>}}
\* variant: the parameter keeps the value of the first evaluation
V_write_once(c, x) ==
    /\ ~IsNone(evals)
    /\ LET e == Get(evals)
           i == e.instance[c]
       IN /\ e.callers[c].pc = "idle" /\ e.callers[c].done < MaxEvaluations
          /\ evals' = Some([e EXCEPT
                !.param[i] = IF IsNone(@) THEN Some(x) ELSE @,
                !.writes[i] = Append(@, x),
                !.callers = [d \in Callers |->
                   IF d = c
                   THEN [e.callers[c] EXCEPT !.pc = "written", !.x = Some(x),
                                             !.solved_with = None, !.interfered = FALSE]
                   ELSE IF e.instance[d] = i /\ e.callers[d].pc = "written"
                   THEN [e.callers[d] EXCEPT !.interfered = TRUE]
                   ELSE e.callers[d]]])
    /\ UNCHANGED <<vf, prog, built, probe, closure, call, ret, ctx, grad, grid, mip, held>>
\* V(x) of caller c, first statement: x0.value = x (set_bounds(x, x) for an
\* NLPValueFunction, args['x0'].value = x in forward)
V_write(c, x) ==
    /\ ~IsNone(evals)
    /\ LET e == Get(evals)
           i == e.instance[c]
       IN /\ e.callers[c].pc = "idle" /\ e.callers[c].done < MaxEvaluations
          /\ evals' = Some([e EXCEPT
                !.param[i] = Some(x),
                !.writes[i] = Append(@, x),
                !.callers = [d \in Callers |->
                   IF d = c
                   THEN [e.callers[c] EXCEPT !.pc = "written", !.x = Some(x),
                                             !.solved_with = None, !.interfered = FALSE]
                   ELSE IF e.instance[d] = i /\ e.callers[d].pc = "written"
                   THEN [e.callers[d] EXCEPT !.interfered = TRUE]
                   ELSE e.callers[d]]])
    /\ UNCHANGED <<vf, prog, built, probe, closure, call, ret, ctx, grad, grid, mip, held>>
\* V(x) of caller c, second statement: prob.solve(...) (solver.Solve(...))
\* runs with the value the parameter has now
V_solve(c) ==
    /\ ~IsNone(evals)
    /\ LET e == Get(evals) IN
       /\ e.callers[c].pc = "written"
       /\ evals' = Some([e EXCEPT !.callers[c].pc = "solved",
                                  !.callers[c].solved_with = e.param[e.instance[c]]])
    /\ UNCHANGED <<vf, prog, built, probe, closure, call, ret, ctx, grad, grid, mip, held>>
\* V(x) of caller c returns
V_return(c) ==
    /\ ~IsNone(evals)
    /\ LET e == Get(evals) IN
       /\ e.callers[c].pc = "solved"
       /\ evals' = Some([e EXCEPT !.callers[c] = [IdleCaller EXCEPT !.done = e.callers[c].done + 1]])
    /\ UNCHANGED <<vf, prog, built, probe, closure, call, ret, ctx, grad, grid, mip, held>>
NextEvals ==
    \/ \E c \in Callers, x \in EvalPoints : V_write(c, x)
    \/ \E c \in Callers : V_solve(c)
    \/ \E c \in Callers : V_return(c)
SpecEvals == InitEvals /\ [][NextEvals]_vars

\* C23: every evaluation writes its own x0 into the program before it
\* solves: when no other evaluation's write on the same instance falls
\* between an evaluation's write and its solve, or each caller uses its own
\* instance, the solve runs with the x0 of its own call, whatever
\* evaluations came before.
C23_SolveRunsWithOwnX0 ==
    ~IsNone(evals) =>
       LET e == Get(evals) IN
       \A c \in Callers :
          (e.callers[c].pc = "solved") =>
             /\ ~IsNone(e.callers[c].solved_with)
             /\ ~e.callers[c].interfered => (e.callers[c].solved_with = e.callers[c].x)
             /\ (e.instance[1] # e.instance[2]) =>
                   (e.callers[c].solved_with = e.callers[c].x)
\* three evaluations on one instance, at (0,0), (1,0), (0,1), serialized:
\* the third has solved with its own x0
C23_Witness ==
    /\ ~IsNone(evals)
    /\ Get(evals).instance = <<1, 1>>
    /\ Get(evals).writes[1] = << <<0, 0>>, <<1, 0>>, <<0, 1>> >>
    /\ Get(evals).callers[1].pc = "solved" /\ Get(evals).callers[1].done = 1
    /\ ~Get(evals).callers[1].interfered
    /\ Get(evals).callers[2].pc = "idle" /\ Get(evals).callers[2].done = 1
    /\ Get(evals).callers[1].solved_with = Some(<<0, 1>>)

====
